---------------------------- MODULE Spec2Model ----------------------------
(***************************************************************************)
(* Coordination subsystem of astro-robots: the station's resource ledger  *)
(* (station/communication.rs), the terrain it mirrors (map/mod.rs) and    *)
(* the robots' sessions (robot/communication.rs), connected by crossbeam  *)
(* unbounded channels.                                                     *)
(*                                                                         *)
(* Specifications:                                                         *)
(*   Spec      the station loop driven by clients that use the channel    *)
(*             endpoints directly, as the tests of station/communication  *)
(*             do (sender.send((id, msg)), robot_receiver.try_recv()).    *)
(*   SpecMap   direct calls of Map::consume_energy / consume_mineral /    *)
(*             extract_scientific_data on small maps.                      *)
(*   SpecSwarm the station loop driven by RobotCommunication sessions,    *)
(*             with receiving ends that can be dropped.                    *)
(***************************************************************************)
EXTENDS Integers, Sequences, FiniteSets, TLC

VARIABLES
    map,                        \* Map { width, height, tiles }
    energy_resources,           \* StationCommunication.energy_resources
    mineral_resources,          \* StationCommunication.mineral_resources
    scientific_resources,       \* StationCommunication.scientific_resources
    robot_senders,              \* ids registered in StationCommunication.robot_senders
    robot_receiver,             \* the (robot_id, RobotMessage) channel, oldest first
    station_receiver,           \* per robot: its StationMessage channel, oldest first
    station_dropped,            \* the station's Receiver has been dropped
    robots_dropped,             \* robots whose Receiver has been dropped
    pc,                         \* "idle" or "processing": inside process_messages
    call,                       \* history: the current call of process_messages
    first_amount,               \* history: terrain amount at the first discovery
    decremented,                \* history: total ledger decrement per (kind, position)
    local_energy_resources,     \* per robot: RobotCommunication.local_energy_resources
    local_mineral_resources,    \* per robot: RobotCommunication.local_mineral_resources
    local_scientific_resources, \* per robot: RobotCommunication.local_scientific_resources
    pending_consumed_resources, \* per robot: RobotCommunication.pending_consumed_resources
    sci_broadcast,              \* history: per position, the robots that were sent
                                \* ResourceUpdate{ScientificData, position, 0}, if it was
    map_call,                   \* history: the last direct call of a Map method
    pending_validated,          \* history, per robot and pending entry: the cache showed
                                \* the resource available when it was registered
    robot_call,                 \* history: the last query of a RobotCommunication
    knowledge,                  \* MapKnowledge { version, explored_tiles, updates_history }
    sync_call,                  \* history: the last call of a MapKnowledge method
    station,                    \* Station { position, resources, robots, max_robots,
                                \* production_costs }
    production_call,            \* history: the last call of Station::create_robot
    map_at_broadcast,           \* history: the terrain at the time the message handled
                                \* last had its ResourceUpdate broadcast, if it had one
    production_log,             \* history: the station's stock before the first call
                                \* of create_robot and the types created since
    robot_state                 \* Robot { position, state, energy, modules, inventory,
                                \* visited_positions }

station_vars == <<energy_resources, mineral_resources, scientific_resources,
                  robot_senders, pc, call, first_amount, decremented, sci_broadcast>>
channel_vars == <<robot_receiver, station_receiver, station_dropped, robots_dropped>>
robot_vars == <<local_energy_resources, local_mineral_resources,
                local_scientific_resources, pending_consumed_resources,
                pending_validated>>
sync_vars == <<knowledge, sync_call>>
production_vars == <<station, production_call, production_log, robot_state>>
vars == <<map, station_vars, channel_vars, robot_vars, map_call, sync_vars, robot_call,
          production_vars, map_at_broadcast>>

----------------------------------------------------------------------------
(* Bounds and input sets *)

Width == 2
Height == 1
MaxAmount == 2
MaxInFlight == 2
MaxMapCalls == 2
MaxPending == 1
MaxInbox == 1
MaxVersion == 2
MaxCellVersion == 3
MaxClock == 1

Robots == {1, 2}
Kinds == {"Energy", "Minerals", "ScientificData"}
Amounts == 0 .. MaxAmount

Pos(x, y) == [x |-> x, y |-> y]
ResourcePos == Pos(0, 0)
EmptyPos == Pos(Width - 1, Height - 1)
OutPosX == Pos(Width, 0)
OutPosY == Pos(0, Height)
PosInputs == {ResourcePos, EmptyPos, OutPosX, OutPosY}

----------------------------------------------------------------------------
(* Values *)

None == <<>>
Some(v) == <<v>>

EmptyTable == [p \in {} |-> 0]
Insert(table, position, value) ==
    [p \in (DOMAIN table) \cup {position} |-> IF p = position THEN value ELSE table[p]]
Remove(table, position) ==
    [p \in (DOMAIN table) \ {position} |-> table[p]]

\* u32::abs_diff, as Position::distance_to uses, in the place of saturating_sub
abs_diff(a, b) == IF a >= b THEN a - b ELSE b - a

saturating_sub(a, b) == IF a >= b THEN a - b ELSE 0
Min(a, b) == IF a <= b THEN a ELSE b

Empty == [kind |-> "Empty"]
Obstacle == [kind |-> "Obstacle"]
Energy(amount) == [kind |-> "Energy", amount |-> amount]
Mineral(amount) == [kind |-> "Mineral", amount |-> amount]
ScientificPoint(value) == [kind |-> "ScientificPoint", value |-> value]

ResourceDiscovered(resource_type, position) ==
    [type |-> "ResourceDiscovered", resource_type |-> resource_type, position |-> position]
ResourceConsumed(resource_type, position, amount, robot_id) ==
    [type |-> "ResourceConsumed", resource_type |-> resource_type, position |-> position,
     amount |-> amount, robot_id |-> robot_id]
RequestResourcesState == [type |-> "RequestResourcesState"]

ResourcesUpdate(energy, mineral, scientific) ==
    [type |-> "ResourcesUpdate", energy_resources |-> energy,
     mineral_resources |-> mineral, scientific_resources |-> scientific]
ResourceUpdate(resource_type, position, remaining) ==
    [type |-> "ResourceUpdate", resource_type |-> resource_type, position |-> position,
     remaining |-> remaining]
Acknowledgement(what, position) ==
    [type |-> "Acknowledgement", message |-> <<what, position>>]

----------------------------------------------------------------------------
(* Map (map/mod.rs) *)

TileIndex(m, x, y) == y * m.width + x + 1

get_tile(m, x, y) ==
    IF x >= m.width \/ y >= m.height THEN None
    ELSE IF TileIndex(m, x, y) \in DOMAIN m.tiles THEN Some(m.tiles[TileIndex(m, x, y)])
    ELSE None

SetTile(m, x, y, tile) == [m EXCEPT !.tiles[TileIndex(m, x, y)] = tile]

\* A consume_energy that reads the deposit and leaves the tile as it is
peek_energy(m, x, y, amount) ==
    LET found == get_tile(m, x, y) IN
    IF found # None /\ found[1].kind = "Energy"
    THEN [map |-> m, ret |-> Some(Min(amount, found[1].amount))]
    ELSE [map |-> m, ret |-> None]

consume_energy(m, x, y, amount) ==
    LET found == get_tile(m, x, y) IN
    IF found # None /\ found[1].kind = "Energy"
    THEN LET consumed == Min(amount, found[1].amount)
             left == found[1].amount - consumed
         IN [map |-> SetTile(m, x, y, IF left = 0 THEN Empty ELSE Energy(left)),
             ret |-> Some(consumed)]
    ELSE [map |-> m, ret |-> None]

\* A consume_mineral that leaves an exhausted deposit on the map
consume_mineral_keep(m, x, y, amount) ==
    LET found == get_tile(m, x, y) IN
    IF found # None /\ found[1].kind = "Mineral"
    THEN LET consumed == Min(amount, found[1].amount)
         IN [map |-> SetTile(m, x, y, Mineral(found[1].amount - consumed)),
             ret |-> Some(consumed)]
    ELSE [map |-> m, ret |-> None]

consume_mineral(m, x, y, amount) ==
    LET found == get_tile(m, x, y) IN
    IF found # None /\ found[1].kind = "Mineral"
    THEN LET consumed == Min(amount, found[1].amount)
             left == found[1].amount - consumed
         IN [map |-> SetTile(m, x, y, IF left = 0 THEN Empty ELSE Mineral(left)),
             ret |-> Some(consumed)]
    ELSE [map |-> m, ret |-> None]

\* An extract_scientific_data that reads the value and leaves the point in place
peek_scientific_data(m, x, y) ==
    LET found == get_tile(m, x, y) IN
    IF found # None /\ found[1].kind = "ScientificPoint"
    THEN [map |-> m, ret |-> Some(found[1].value)]
    ELSE [map |-> m, ret |-> None]

extract_scientific_data(m, x, y) ==
    LET found == get_tile(m, x, y) IN
    IF found # None /\ found[1].kind = "ScientificPoint"
    THEN [map |-> SetTile(m, x, y, Empty), ret |-> Some(found[1].value)]
    ELSE [map |-> m, ret |-> None]

\* Map::new gives every tile the default Tile::Empty before placing anything;
\* create_test_map then places resources at chosen positions.
BlankMap == [width |-> Width, height |-> Height,
             tiles |-> [i \in 1 .. Width * Height |-> Empty]]

ResourceTiles ==
    {Energy(a) : a \in 1 .. MaxAmount} \cup {Mineral(a) : a \in 1 .. MaxAmount}
        \cup {ScientificPoint(a) : a \in 1 .. MaxAmount}

----------------------------------------------------------------------------
(* Channels (crossbeam unbounded): a send appends unless the receiving end  *)
(* has been dropped, in which case it returns Err, which every caller       *)
(* discards with `let _ =`.                                                 *)

RECURSIVE SumLen(_, _)
SumLen(chans, S) ==
    IF S = {} THEN 0
    ELSE LET r == CHOOSE r \in S : TRUE IN Len(chans[r]) + SumLen(chans, S \ {r})

InFlight == Len(robot_receiver) + SumLen(station_receiver, Robots)

\* A send that queues the message although nobody can receive it any more
send_queued(chan, robot_id, message) ==
    Append(chan, [id |-> robot_id, msg |-> message])

send_to_station(chan, robot_id, message) ==
    IF station_dropped THEN chan ELSE Append(chan, [id |-> robot_id, msg |-> message])

send_to_robot(chans, robot_id, message) ==
    IF robot_id \in robots_dropped THEN chans
    ELSE [chans EXCEPT ![robot_id] = Append(@, message)]

\* A receive that takes the newest message instead of the oldest
try_recv_newest(chan) ==
    [taken |-> chan[Len(chan)], rest |-> SubSeq(chan, 1, Len(chan) - 1)]

\* try_recv on a non-empty channel: the oldest message, and what stays queued.
try_recv(chan) == [taken |-> Head(chan), rest |-> Tail(chan)]

----------------------------------------------------------------------------
(* StationCommunication (station/communication.rs) *)

register_robot(robot_id) ==
    /\ robot_id \notin robot_senders
    /\ robot_senders' = robot_senders \cup {robot_id}
    /\ UNCHANGED <<map, energy_resources, mineral_resources, scientific_resources,
                   pc, call, first_amount, decremented, sci_broadcast,
                   channel_vars, robot_vars, map_call, sync_vars,
                   production_vars, map_at_broadcast, robot_call>>

RECURSIVE SendAll(_, _, _)
SendAll(chans, S, message) ==
    IF S = {} THEN chans
    ELSE LET r == CHOOSE r \in S : TRUE
         IN SendAll(send_to_robot(chans, r, message), S \ {r}, message)

\* A reply that goes to every registered robot instead of the one addressed
reply_all(chans, robot_id, message) ==
    SendAll(chans, robot_senders, message)

\* `if let Some(sender) = self.robot_senders.get(&robot_id) { let _ = sender.send(..) }`
reply(chans, robot_id, message) ==
    IF robot_id \in robot_senders THEN send_to_robot(chans, robot_id, message) ELSE chans

broadcast_resource_update(chans, resource_type, position, remaining) ==
    SendAll(chans, robot_senders, ResourceUpdate(resource_type, position, remaining))

\* A match that records the amount of whatever resource the tile holds
any_amount(resource_type, tile) ==
    IF tile.kind \in {"Energy", "Mineral"} THEN Some(tile.amount)
    ELSE IF tile.kind = "ScientificPoint" THEN Some(tile.value)
    ELSE None

\* The match of the ResourceDiscovered arm: the amount to record, if any.
discovered_amount(resource_type, tile) ==
    IF resource_type = "Energy" /\ tile.kind = "Energy" THEN Some(tile.amount)
    ELSE IF resource_type = "Minerals" /\ tile.kind = "Mineral" THEN Some(tile.amount)
    ELSE IF resource_type = "ScientificData" /\ tile.kind = "ScientificPoint"
         THEN Some(tile.value)
    ELSE None

\* The Energy and Minerals arms of ResourceConsumed: the table after the
\* update and the new_amount that is broadcast.
\* A ledger update that keeps an exhausted entry, with amount 0
consume_entry_keep(table, position, amount) ==
    LET has == position \in DOMAIN table
        new_amount == IF has THEN saturating_sub(table[position], amount) ELSE 0
    IN [table |-> IF has THEN Insert(table, position, new_amount) ELSE table,
        new_amount |-> new_amount]

consume_entry(table, position, amount) ==
    LET has == position \in DOMAIN table
        new_amount == IF has THEN saturating_sub(table[position], amount) ELSE 0
        should_remove == has /\ new_amount = 0
    IN IF should_remove THEN [table |-> Remove(table, position), new_amount |-> 0]
       ELSE IF new_amount > 0
            THEN [table |-> Insert(table, position, new_amount), new_amount |-> new_amount]
       ELSE [table |-> table, new_amount |-> new_amount]

Table(resource_type) ==
    IF resource_type = "Energy" THEN energy_resources
    ELSE IF resource_type = "Minerals" THEN mineral_resources
    ELSE scientific_resources

TableNext(resource_type) ==
    IF resource_type = "Energy" THEN energy_resources'
    ELSE IF resource_type = "Minerals" THEN mineral_resources'
    ELSE scientific_resources'

LedgerAmount(table, position) ==
    IF position \in DOMAIN table THEN table[position] ELSE 0

\* What a step takes off a ledger entry (0 when the entry grows or stays)
Decrement(resource_type, position) ==
    saturating_sub(LedgerAmount(Table(resource_type), position),
                   LedgerAmount(TableNext(resource_type), position))

KindPos == Kinds \X PosInputs

\* One iteration of `while let Ok((robot_id, message)) = self.robot_receiver.try_recv()`
\* takes the oldest message; what the call has taken so far is kept in `call`.
Taken ==
    /\ pc = "processing"
    /\ ~station_dropped
    /\ robot_receiver # <<>>
    /\ robot_receiver' = try_recv(robot_receiver).rest
    /\ call' = [call EXCEPT !.applied = IF call.clean
                                         THEN Append(@, try_recv(robot_receiver).taken)
                                         ELSE @]
    /\ UNCHANGED <<pc, robot_senders, station_dropped, robots_dropped, robot_vars,
                   map_call, sync_vars, production_vars, robot_call>>

handle_resource_discovered ==
    LET robot_id == try_recv(robot_receiver).taken.id
        message == try_recv(robot_receiver).taken.msg
    IN
    /\ Taken
    /\ message.type = "ResourceDiscovered"
    /\ LET position == message.position
           resource_type == message.resource_type
           found == get_tile(map, position.x, position.y)
           amount == IF found = None THEN None
                     ELSE discovered_amount(resource_type, found[1])
       IN
       /\ energy_resources' =
            IF amount # None /\ resource_type = "Energy"
            THEN Insert(energy_resources, position, amount[1]) ELSE energy_resources
       /\ mineral_resources' =
            IF amount # None /\ resource_type = "Minerals"
            THEN Insert(mineral_resources, position, amount[1]) ELSE mineral_resources
       /\ scientific_resources' =
            IF amount # None /\ resource_type = "ScientificData"
            THEN Insert(scientific_resources, position, amount[1])
            ELSE scientific_resources
       /\ first_amount' =
            IF amount # None /\ first_amount[<<resource_type, position>>] = None
            THEN [first_amount EXCEPT ![<<resource_type, position>>] = amount]
            ELSE first_amount
       /\ station_receiver' =
            reply(station_receiver, robot_id,
                  Acknowledgement("Resource discovered", position))
       /\ decremented' =
            [decremented EXCEPT ![<<resource_type, position>>] =
                @ + Decrement(resource_type, position)]
    /\ map_at_broadcast' = None
    /\ UNCHANGED <<map, sci_broadcast>>

\* broadcast_resource_update is called before map.consume_energy,
\* map.consume_mineral and map.extract_scientific_data: map_at_broadcast is the
\* terrain as it is when the ResourceUpdate is sent
handle_resource_consumed ==
    LET robot_id == try_recv(robot_receiver).taken.id
        message == try_recv(robot_receiver).taken.msg
    IN
    /\ Taken
    /\ message.type = "ResourceConsumed"
    /\ LET position == message.position
           resource_type == message.resource_type
           amount == message.amount
           ack == Acknowledgement("Resource consumption", position)
       IN
       /\ \/ /\ resource_type = "Energy"
             /\ LET c == consume_entry(energy_resources, position, amount) IN
                /\ energy_resources' = c.table
                /\ station_receiver' =
                     reply(broadcast_resource_update(station_receiver, resource_type,
                                                     position, c.new_amount),
                           robot_id, ack)
             /\ map_at_broadcast' = Some(map)
             /\ map' = consume_energy(map, position.x, position.y, amount).map
             /\ UNCHANGED <<mineral_resources, scientific_resources, sci_broadcast>>
          \/ /\ resource_type = "Minerals"
             /\ LET c == consume_entry(mineral_resources, position, amount) IN
                /\ mineral_resources' = c.table
                /\ station_receiver' =
                     reply(broadcast_resource_update(station_receiver, resource_type,
                                                     position, c.new_amount),
                           robot_id, ack)
             /\ map_at_broadcast' = Some(map)
             /\ map' = consume_mineral(map, position.x, position.y, amount).map
             /\ UNCHANGED <<energy_resources, scientific_resources, sci_broadcast>>
          \/ /\ resource_type = "ScientificData"
             /\ LET exists == position \in DOMAIN scientific_resources IN
                /\ scientific_resources' =
                     IF exists THEN Remove(scientific_resources, position)
                     ELSE scientific_resources
                /\ station_receiver' =
                     reply(IF exists
                           THEN broadcast_resource_update(station_receiver, resource_type,
                                                          position, 0)
                           ELSE station_receiver,
                           robot_id, ack)
                /\ sci_broadcast' =
                     IF exists
                     THEN [sci_broadcast EXCEPT ![position] =
                              Some(robot_senders \ robots_dropped)]
                     ELSE sci_broadcast
             /\ map_at_broadcast' =
                  IF position \in DOMAIN scientific_resources THEN Some(map) ELSE None
             /\ map' = extract_scientific_data(map, position.x, position.y).map
             /\ UNCHANGED <<energy_resources, mineral_resources>>
       /\ decremented' =
            [decremented EXCEPT ![<<resource_type, position>>] =
                @ + Decrement(resource_type, position)]
    /\ UNCHANGED first_amount

handle_request_resources_state ==
    LET robot_id == try_recv(robot_receiver).taken.id
        message == try_recv(robot_receiver).taken.msg
    IN
    /\ Taken
    /\ message.type = "RequestResourcesState"
    /\ station_receiver' =
         reply(station_receiver, robot_id,
               ResourcesUpdate(energy_resources, mineral_resources, scientific_resources))
    /\ map_at_broadcast' = None
    /\ UNCHANGED <<map, energy_resources, mineral_resources, scientific_resources,
                   first_amount, decremented, sci_broadcast>>

NoCall == [snapshot |-> <<>>, applied |-> <<>>, clean |-> FALSE]

\* process_messages is entered with some messages queued ...
process_messages_call ==
    /\ pc = "idle"
    /\ ~station_dropped
    /\ pc' = "processing"
    /\ call' = [snapshot |-> robot_receiver, applied |-> <<>>, clean |-> TRUE]
    /\ UNCHANGED <<map, energy_resources, mineral_resources, scientific_resources,
                   robot_senders, first_amount, decremented, sci_broadcast,
                   channel_vars, robot_vars, map_call, sync_vars,
                   production_vars, map_at_broadcast, robot_call>>

\* ... and left when try_recv finds the channel empty.
process_messages_return ==
    /\ pc = "processing"
    /\ ~station_dropped
    /\ robot_receiver = <<>>
    /\ pc' = "idle"
    /\ call' = NoCall
    /\ UNCHANGED <<map, energy_resources, mineral_resources, scientific_resources,
                   robot_senders, first_amount, decremented, sci_broadcast,
                   channel_vars, robot_vars, map_call, sync_vars,
                   production_vars, map_at_broadcast, robot_call>>

----------------------------------------------------------------------------
(* Clients of the channel endpoints, as in the tests of                    *)
(* station/communication.rs.                                               *)

\* A send from another thread while process_messages runs: the call no longer
\* sees just the messages queued when it was entered.
CallAfterSend == IF pc = "processing" THEN NoCall ELSE call

DiscoveredInputs ==
    {ResourceDiscovered(k, ResourcePos) : k \in Kinds}
        \cup {ResourceDiscovered("Energy", EmptyPos),
              ResourceDiscovered("Minerals", OutPosX)}

ConsumedInputs(robot_id) ==
    {ResourceConsumed(k, ResourcePos, a, robot_id) : k \in Kinds, a \in Amounts}
        \cup {ResourceConsumed("Energy", EmptyPos, 1, robot_id),
              ResourceConsumed("ScientificData", OutPosX, 1, robot_id)}

\* Robot 1 sends every input; the other robots send a request or a unit
\* consumption at the resource tile, enough to interleave two senders.
MessageInputs(robot_id) ==
    IF robot_id = 1
    THEN DiscoveredInputs \cup ConsumedInputs(robot_id) \cup {RequestResourcesState}
    ELSE {ResourceConsumed(k, ResourcePos, 1, robot_id) : k \in Kinds}
            \cup {RequestResourcesState}

client_send(robot_id, message) ==
    /\ InFlight < MaxInFlight
    /\ robot_receiver' = send_to_station(robot_receiver, robot_id, message)
    /\ call' = CallAfterSend
    /\ UNCHANGED <<map, energy_resources, mineral_resources, scientific_resources,
                   robot_senders, pc, first_amount, decremented, sci_broadcast,
                   station_receiver, station_dropped, robots_dropped, robot_vars,
                   map_call, sync_vars, production_vars, map_at_broadcast, robot_call>>

\* `while let Ok(message) = robot_receiver.try_recv() { .. }`
client_recv(robot_id) ==
    /\ robot_id \notin robots_dropped
    /\ station_receiver[robot_id] # <<>>
    /\ station_receiver' = [station_receiver EXCEPT ![robot_id] = <<>>]
    /\ UNCHANGED <<map, station_vars, robot_receiver, station_dropped, robots_dropped,
                   robot_vars, map_call, sync_vars,
                   production_vars, map_at_broadcast, robot_call>>

----------------------------------------------------------------------------
(* Spec: the station loop and its channel clients *)

\* MapKnowledge::new
NewKnowledge == [version |-> 0, explored_tiles |-> EmptyTable, updates_history |-> <<>>]

NoSyncCall == [fn |-> "none"]
NoRobotCall == [fn |-> "none"]

\* Robot::new(initial_pos, modules); energy 100.0 is written in hundredths.
NewRobot(initial_pos, modules) ==
    [position |-> initial_pos,
     state |-> "Idle",
     energy |-> 10000,
     modules |-> modules,
     inventory |-> [energy |-> 0, minerals |-> 0, scientific_data |-> 0],
     visited_positions |-> <<initial_pos>>]

\* Station::new: the fields create_robot reads and writes
NewStation ==
    [position |-> Pos(10, 10),
     resources |-> [energy |-> 1000, minerals |-> 500, scientific_data |-> 0],
     robots |-> <<>>,
     max_robots |-> 10,
     production_costs |->
         [Explorer |-> <<200, 100>>, EnergyCollector |-> <<150, 150>>,
          Miner |-> <<150, 200>>, Scientist |-> <<250, 150>>]]

NoProductionCall == [fn |-> "none"]

InitProduction ==
    /\ station = NewStation
    /\ production_call = NoProductionCall
    /\ production_log = [stock |-> NewStation.resources, created |-> <<>>]
    /\ map_at_broadcast = None
    /\ robot_state = NewRobot(Pos(0, 0), <<>>)

InitKnowledge ==
    /\ knowledge = NewKnowledge
    /\ sync_call = NoSyncCall

InitStation ==
    /\ energy_resources = EmptyTable
    /\ mineral_resources = EmptyTable
    /\ scientific_resources = EmptyTable
    /\ robot_senders = {}
    /\ pc = "idle"
    /\ call = NoCall
    /\ first_amount = [kp \in KindPos |-> None]
    /\ decremented = [kp \in KindPos |-> 0]
    /\ sci_broadcast = [p \in PosInputs |-> None]

InitChannels ==
    /\ robot_receiver = <<>>
    /\ station_receiver = [r \in Robots |-> <<>>]
    /\ station_dropped = FALSE
    /\ robots_dropped = {}

InitRobots ==
    /\ local_energy_resources = [r \in Robots |-> EmptyTable]
    /\ local_mineral_resources = [r \in Robots |-> EmptyTable]
    /\ local_scientific_resources = [r \in Robots |-> EmptyTable]
    /\ pending_consumed_resources = [r \in Robots |-> <<>>]
    /\ pending_validated = [r \in Robots |-> <<>>]

NoMapCall == [n |-> 0, fn |-> "none", position |-> ResourcePos, amount |-> 0, ret |-> None]

Init ==
    /\ \E tile \in {Energy(MaxAmount), Mineral(MaxAmount), ScientificPoint(MaxAmount)} :
          map = SetTile(BlankMap, ResourcePos.x, ResourcePos.y, tile)
    /\ InitStation
    /\ InitChannels
    /\ InitRobots
    /\ map_call = NoMapCall
    /\ robot_call = NoRobotCall
    /\ InitProduction
    /\ InitKnowledge

Next ==
    \/ \E r \in Robots : register_robot(r)
    \/ \E r \in Robots : \E m \in MessageInputs(r) : client_send(r, m)
    \/ \E r \in Robots : client_recv(r)
    \/ process_messages_call
    \/ handle_resource_discovered
    \/ handle_resource_consumed
    \/ handle_request_resources_state
    \/ process_messages_return

Spec == Init /\ [][Next]_vars

----------------------------------------------------------------------------
(* Vocabulary of the properties *)

\* A step of the station loop that takes a message off robot_receiver
Handling ==
    /\ pc = "processing"
    /\ ~station_dropped'
    /\ Len(robot_receiver') < Len(robot_receiver)

Sender == Head(robot_receiver).id
Msg == Head(robot_receiver).msg
Handled(type) == Handling /\ Msg.type = type

\* Registered robots whose receiving end is alive
Live == robot_senders \ robots_dropped

\* The step only appends to the robot's channel; Sent is what it appends
Extends(robot) ==
    /\ Len(station_receiver'[robot]) >= Len(station_receiver[robot])
    /\ SubSeq(station_receiver'[robot], 1, Len(station_receiver[robot]))
         = station_receiver[robot]
Sent(robot) ==
    SubSeq(station_receiver'[robot], Len(station_receiver[robot]) + 1,
           Len(station_receiver'[robot]))
OfType(messages, type) ==
    LET Test(m) == m.type = type IN SelectSeq(messages, Test)

TileKind(resource_type) ==
    CASE resource_type = "Energy" -> "Energy"
      [] resource_type = "Minerals" -> "Mineral"
      [] resource_type = "ScientificData" -> "ScientificPoint"
TileAmount(tile) == IF tile.kind = "ScientificPoint" THEN tile.value ELSE tile.amount
\* The terrain tile at the position holds exactly this kind of resource
Holds(m, resource_type, position) ==
    LET found == get_tile(m, position.x, position.y)
    IN found # None /\ found[1].kind = TileKind(resource_type)

LedgerUnchanged ==
    UNCHANGED <<energy_resources, mineral_resources, scientific_resources>>

----------------------------------------------------------------------------
(* Properties of Spec *)

\* C1: handling ResourceConsumed{Energy or Minerals, position, amount} while
\* the ledger holds r at the position leaves r - amount there if amount < r
\* and removes the entry if amount >= r; every registered robot, the sender
\* included, is sent exactly one ResourceUpdate, whose remaining is the
\* amount after the update (0 if the entry was removed).
C1_ConsumedUpdatesLedgerAndBroadcasts ==
    [][ (/\ Handled("ResourceConsumed")
         /\ Msg.resource_type \in {"Energy", "Minerals"}
         /\ Msg.position \in DOMAIN Table(Msg.resource_type))
        => LET kind == Msg.resource_type
               position == Msg.position
               r == Table(kind)[position]
               remaining == IF Msg.amount < r THEN r - Msg.amount ELSE 0
           IN /\ TableNext(kind) =
                    IF Msg.amount < r THEN Insert(Table(kind), position, r - Msg.amount)
                    ELSE Remove(Table(kind), position)
              /\ \A robot \in Live :
                    /\ Extends(robot)
                    /\ OfType(Sent(robot), "ResourceUpdate")
                         = <<ResourceUpdate(kind, position, remaining)>>
      ]_vars

\* Part of an energy deposit has been consumed and every robot holds the update.
C1_Witness ==
    /\ robot_senders = Robots
    /\ ResourcePos \in DOMAIN energy_resources
    /\ energy_resources[ResourcePos] = MaxAmount - 1
    /\ \A robot \in Robots :
          \E i \in DOMAIN station_receiver[robot] :
             station_receiver[robot][i]
                = ResourceUpdate("Energy", ResourcePos, MaxAmount - 1)

\* C2: for every (kind, position) the decrements applied to the ledger entry
\* never add up to more than the terrain amount at its first discovery,
\* whatever the interleaving of ResourceDiscovered and ResourceConsumed.
C2_Conservation ==
    \A kp \in KindPos :
       decremented[kp] <= (IF first_amount[kp] = None THEN 0 ELSE first_amount[kp][1])

\* A deposit has been consumed down to nothing.
C2_Witness ==
    \E kp \in KindPos :
       /\ first_amount[kp] = Some(MaxAmount)
       /\ decremented[kp] = MaxAmount
       /\ kp[2] \notin DOMAIN Table(kp[1])

\* C4: the first ResourceConsumed{ScientificData} handled while the ledger
\* holds the position removes the entry whatever the amount, sends
\* remaining = 0 to every registered robot and takes the point off the
\* terrain; a later ResourceConsumed for that position changes neither the
\* ledger nor the terrain.
C4_ScientificAllOrNothing ==
    [][ /\ (/\ Handled("ResourceConsumed")
            /\ Msg.resource_type = "ScientificData"
            /\ Msg.position \in DOMAIN scientific_resources)
           => /\ scientific_resources' = Remove(scientific_resources, Msg.position)
              /\ UNCHANGED <<energy_resources, mineral_resources>>
              /\ \A robot \in Live :
                    /\ Extends(robot)
                    /\ OfType(Sent(robot), "ResourceUpdate")
                         = <<ResourceUpdate("ScientificData", Msg.position, 0)>>
              /\ ~Holds(map', "ScientificData", Msg.position)
        /\ (/\ Handled("ResourceConsumed")
            /\ sci_broadcast[Msg.position] # None)
           => /\ LedgerUnchanged
              /\ map' = map
      ]_vars

\* The point is gone and a second consumption of it has been acknowledged:
\* the channel holds an acknowledgement with no update before it.
C4_Witness ==
    /\ sci_broadcast[ResourcePos] = Some(Robots)
    /\ get_tile(map, ResourcePos.x, ResourcePos.y) = Some(Empty)
    /\ station_receiver[1] = <<Acknowledgement("Resource consumption", ResourcePos)>>

\* What handling ResourceDiscovered does to the ledger and the terrain: the
\* entry is set to the terrain's current amount if the tile holds exactly
\* that kind, the three tables stay as they are otherwise, and the terrain
\* is never touched.
DiscoveredRecorded ==
    LET kind == Msg.resource_type
        position == Msg.position
        found == get_tile(map, position.x, position.y)
    IN /\ TableNext(kind) =
             IF Holds(map, kind, position)
             THEN Insert(Table(kind), position, TileAmount(found[1]))
             ELSE Table(kind)
       /\ \A other \in Kinds \ {kind} : TableNext(other) = Table(other)
       /\ map' = map

DiscoveredAck == Acknowledgement("Resource discovered", Msg.position)

\* C6: handling ResourceDiscovered records the terrain's current amount if
\* the tile holds exactly that kind and otherwise leaves the three tables
\* unchanged; the terrain is unchanged; one Acknowledgement is sent to the
\* originating robot if it is registered and none if it is not; no other
\* robot receives anything.
C6_DiscoveredRecordsAndAcknowledges ==
    [][ Handled("ResourceDiscovered")
        => /\ DiscoveredRecorded
           /\ \A robot \in Robots \ {Sender} :
                 station_receiver'[robot] = station_receiver[robot]
           /\ station_receiver'[Sender] =
                 IF Sender \in Live
                 THEN Append(station_receiver[Sender], DiscoveredAck)
                 ELSE station_receiver[Sender]
      ]_vars

\* C6 as stated: exactly one Acknowledgement reaches the originating robot,
\* registered or not.
C6_AlwaysAcknowledged ==
    [][ Handled("ResourceDiscovered")
        => /\ DiscoveredRecorded
           /\ \A robot \in Robots \ {Sender} :
                 station_receiver'[robot] = station_receiver[robot]
           /\ station_receiver'[Sender] = Append(station_receiver[Sender], DiscoveredAck)
      ]_vars

\* A discovery has been recorded although no robot is registered, and no
\* channel holds an acknowledgement.
C6_Witness ==
    /\ robot_senders = {}
    /\ ResourcePos \in DOMAIN energy_resources
    /\ energy_resources[ResourcePos] = MaxAmount
    /\ \A robot \in Robots : station_receiver[robot] = <<>>

\* C7: handling RequestResourcesState from a registered robot sends that
\* robot, and no other, exactly one ResourcesUpdate whose three tables equal
\* the ledger at that moment, and leaves the ledger and the terrain as they
\* are; a message sitting in a channel is not altered by later steps.
C7_RequestAnsweredWithSnapshot ==
    [][ /\ (Handled("RequestResourcesState") /\ Sender \in Live)
           => /\ station_receiver' =
                   [station_receiver EXCEPT ![Sender] =
                       Append(@, ResourcesUpdate(energy_resources, mineral_resources,
                                                 scientific_resources))]
              /\ LedgerUnchanged
              /\ map' = map
        /\ \A robot \in Robots :
              station_receiver'[robot] = <<>> \/ Extends(robot)
      ]_vars

\* A snapshot waits in the channel while the ledger has moved on.
C7_Witness ==
    \E i \in DOMAIN station_receiver[1] :
       /\ station_receiver[1][i].type = "ResourcesUpdate"
       /\ ResourcePos \in DOMAIN station_receiver[1][i].energy_resources
       /\ station_receiver[1][i].energy_resources # energy_resources
       /\ 2 \in robot_senders

\* C8: a call of process_messages during which no robot sends takes the
\* queued messages one at a time from the front, each handled completely
\* before the next, and returns with the queue empty having applied exactly
\* the messages that were queued, in their order; on an empty queue it
\* returns without changing or sending anything.
C8_CallDrainsQueueInOrder ==
    [][ /\ Handling
           => /\ robot_receiver' = Tail(robot_receiver)
              /\ call.clean => call'.applied = Append(call.applied, Head(robot_receiver))
        /\ (pc = "processing" /\ pc' = "idle")
           => /\ robot_receiver = <<>>
              /\ robot_receiver' = <<>>
              /\ call.clean => call.applied = call.snapshot
        /\ (pc = "processing" /\ call.clean /\ call.snapshot = <<>>)
           => /\ ~Handling
              /\ LedgerUnchanged
              /\ map' = map
              /\ \A robot \in Robots :
                    Len(station_receiver'[robot]) <= Len(station_receiver[robot])
      ]_vars

\* A call has applied the two different messages it found queued.
C8_Witness ==
    /\ pc = "processing"
    /\ call.clean
    /\ Len(call.snapshot) = 2
    /\ call.snapshot[1] # call.snapshot[2]
    /\ call.applied = call.snapshot
    /\ robot_receiver = <<>>

\* C9: handling a ResourceConsumed for a (kind, position) absent from the
\* ledger, or a ResourceDiscovered for a position whose tile does not hold
\* that kind, changes neither the ledger nor the terrain.
C9_AbsentResourceIsNoOp ==
    [][ (\/ /\ Handled("ResourceConsumed")
            /\ Msg.position \notin DOMAIN Table(Msg.resource_type)
         \/ /\ Handled("ResourceDiscovered")
            /\ ~Holds(map, Msg.resource_type, Msg.position))
        => /\ LedgerUnchanged
           /\ map' = map
      ]_vars

----------------------------------------------------------------------------
(* SpecMap: direct calls of the Map methods, as the tests of map/mod.rs do *)

MapAmounts == 0 .. MaxAmount + 1

MapCalled(fn, position, amount, result) ==
    /\ map_call.n < MaxMapCalls
    /\ map' = result.map
    /\ map_call' = [n |-> map_call.n + 1, fn |-> fn, position |-> position,
                    amount |-> amount, ret |-> result.ret]
    /\ UNCHANGED <<station_vars, channel_vars, robot_vars, sync_vars,
                   production_vars, map_at_broadcast, robot_call>>

call_consume_energy(position, amount) ==
    MapCalled("consume_energy", position, amount,
              consume_energy(map, position.x, position.y, amount))

call_consume_mineral(position, amount) ==
    MapCalled("consume_mineral", position, amount,
              consume_mineral(map, position.x, position.y, amount))

call_extract_scientific_data(position) ==
    MapCalled("extract_scientific_data", position, 0,
              extract_scientific_data(map, position.x, position.y))

InitMap ==
    /\ \E tile \in ResourceTiles \cup {Empty, Obstacle} :
          map = SetTile(BlankMap, ResourcePos.x, ResourcePos.y, tile)
    /\ InitStation
    /\ InitChannels
    /\ InitRobots
    /\ map_call = NoMapCall
    /\ robot_call = NoRobotCall
    /\ InitProduction
    /\ InitKnowledge

NextMap ==
    \/ \E position \in PosInputs : \E amount \in MapAmounts :
          call_consume_energy(position, amount)
    \/ \E position \in PosInputs : \E amount \in MapAmounts :
          call_consume_mineral(position, amount)
    \/ \E position \in PosInputs : call_extract_scientific_data(position)

SpecMap == InitMap /\ [][NextMap]_vars

\* C3: consume_energy and consume_mineral on a tile holding r of the matching
\* kind return Some(min(amount, r)) and leave r - min(amount, r) in the tile,
\* which becomes Empty when that is 0; on any other tile, or out of bounds,
\* they return None and the map is unchanged.
C3_ConsumeClampsAndEmpties ==
    [][ (/\ map_call'.n = map_call.n + 1
         /\ map_call'.fn \in {"consume_energy", "consume_mineral"})
        => LET c == map_call'
               kind == IF c.fn = "consume_energy" THEN "Energy" ELSE "Mineral"
               inside == c.position.x < map.width /\ c.position.y < map.height
               index == c.position.y * map.width + c.position.x + 1
           IN IF inside /\ map.tiles[index].kind = kind
              THEN LET r == map.tiles[index].amount
                       taken == IF c.amount <= r THEN c.amount ELSE r
                   IN /\ c.ret = Some(taken)
                      /\ map' = [map EXCEPT !.tiles[index] =
                                    IF r - taken = 0 THEN Empty
                                    ELSE [kind |-> kind, amount |-> r - taken]]
              ELSE /\ c.ret = None
                   /\ map' = map
      ]_vars

\* A mineral deposit has been asked for more than it held and is now Empty.
C3_Witness ==
    /\ map_call.fn = "consume_mineral"
    /\ map_call.position = ResourcePos
    /\ map_call.amount = MaxAmount + 1
    /\ map_call.ret = Some(MaxAmount)
    /\ get_tile(map, ResourcePos.x, ResourcePos.y) = Some(Empty)

----------------------------------------------------------------------------
(* RobotCommunication (robot/communication.rs) *)

RobotAlive(robot_id) == robot_id \notin robots_dropped

\* Bound of the model: messages in flight. A send to a dropped station
\* queues nothing, so it is never held back.
CanSend(n) == station_dropped \/ InFlight + n <= MaxInFlight

report_resource_discovered(robot_id, resource_type, position) ==
    /\ RobotAlive(robot_id)
    /\ CanSend(1)
    /\ robot_receiver' = send_to_station(robot_receiver, robot_id,
                                         ResourceDiscovered(resource_type, position))
    /\ call' = CallAfterSend
    /\ UNCHANGED <<map, energy_resources, mineral_resources, scientific_resources,
                   robot_senders, pc, first_amount, decremented, sci_broadcast,
                   station_receiver, station_dropped, robots_dropped, robot_vars,
                   map_call, sync_vars, production_vars, map_at_broadcast, robot_call>>

\* An availability test that compares the amount for every kind
is_amount_available(robot_id, resource_type, position, required_amount) ==
    LET cache == IF resource_type = "Energy" THEN local_energy_resources[robot_id]
                 ELSE IF resource_type = "Minerals" THEN local_mineral_resources[robot_id]
                 ELSE local_scientific_resources[robot_id]
    IN position \in DOMAIN cache /\ cache[position] >= required_amount

is_resource_available(robot_id, resource_type, position, required_amount) ==
    IF resource_type = "Energy"
    THEN IF position \in DOMAIN local_energy_resources[robot_id]
         THEN local_energy_resources[robot_id][position] >= required_amount
         ELSE FALSE
    ELSE IF resource_type = "Minerals"
    THEN IF position \in DOMAIN local_mineral_resources[robot_id]
         THEN local_mineral_resources[robot_id][position] >= required_amount
         ELSE FALSE
    ELSE position \in DOMAIN local_scientific_resources[robot_id]

\* A local decrement that keeps an exhausted entry in the cache
register_entry_keep(table, position, amount) ==
    IF position \in DOMAIN table
    THEN Insert(table, position, saturating_sub(table[position], amount))
    ELSE table

\* The Energy and Minerals arms of register_consumed_resource
register_entry(table, position, amount) ==
    IF position \in DOMAIN table
    THEN LET current == saturating_sub(table[position], amount)
         IN IF current = 0 THEN Remove(table, position)
            ELSE Insert(table, position, current)
    ELSE table

register_consumed_resource(robot_id, resource_type, position, amount) ==
    /\ RobotAlive(robot_id)
    /\ Len(pending_consumed_resources[robot_id]) < MaxPending
    /\ local_energy_resources' =
         IF resource_type = "Energy"
         THEN [local_energy_resources EXCEPT ![robot_id] = register_entry(@, position, amount)]
         ELSE local_energy_resources
    /\ local_mineral_resources' =
         IF resource_type = "Minerals"
         THEN [local_mineral_resources EXCEPT ![robot_id] = register_entry(@, position, amount)]
         ELSE local_mineral_resources
    /\ local_scientific_resources' =
         IF resource_type = "ScientificData"
         THEN [local_scientific_resources EXCEPT ![robot_id] = Remove(@, position)]
         ELSE local_scientific_resources
    /\ pending_consumed_resources' =
         [pending_consumed_resources EXCEPT ![robot_id] =
             Append(@, <<resource_type, position, amount>>)]
    /\ pending_validated' =
         [pending_validated EXCEPT ![robot_id] =
             Append(@, is_resource_available(robot_id, resource_type, position, amount))]
    /\ UNCHANGED <<map, station_vars, channel_vars, map_call, sync_vars,
                   production_vars, map_at_broadcast, robot_call>>

\* A flush that sends the newest pending consumption first
RECURSIVE SendEachNewestFirst(_, _, _)
SendEachNewestFirst(chan, robot_id, pending) ==
    IF pending = <<>> THEN chan
    ELSE LET last == pending[Len(pending)]
         IN SendEachNewestFirst(
               send_to_station(chan, robot_id,
                               ResourceConsumed(last[1], last[2], last[3], robot_id)),
               robot_id, SubSeq(pending, 1, Len(pending) - 1))

\* `for (..) in self.pending_consumed_resources.drain(..) { let _ = send(..) }`
RECURSIVE SendEach(_, _, _)
SendEach(chan, robot_id, pending) ==
    IF pending = <<>> THEN chan
    ELSE SendEach(send_to_station(chan, robot_id,
                                  ResourceConsumed(Head(pending)[1], Head(pending)[2],
                                                   Head(pending)[3], robot_id)),
                  robot_id, Tail(pending))

\* Called with an empty pending list the loop body never runs.
report_pending_consumed_resources(robot_id) ==
    /\ RobotAlive(robot_id)
    /\ CanSend(Len(pending_consumed_resources[robot_id]))
    /\ robot_receiver' =
         SendEach(robot_receiver, robot_id, pending_consumed_resources[robot_id])
    /\ pending_consumed_resources' = [pending_consumed_resources EXCEPT ![robot_id] = <<>>]
    /\ pending_validated' = [pending_validated EXCEPT ![robot_id] = <<>>]
    /\ call' = IF pending_consumed_resources[robot_id] = <<>> THEN call ELSE CallAfterSend
    /\ UNCHANGED <<map, energy_resources, mineral_resources, scientific_resources,
                   robot_senders, pc, first_amount, decremented, sci_broadcast,
                   station_receiver, station_dropped, robots_dropped,
                   local_energy_resources, local_mineral_resources,
                   local_scientific_resources, map_call, sync_vars,
                   production_vars, map_at_broadcast, robot_call>>

request_resources_state(robot_id) ==
    /\ RobotAlive(robot_id)
    /\ CanSend(1)
    /\ robot_receiver' = send_to_station(robot_receiver, robot_id, RequestResourcesState)
    /\ call' = CallAfterSend
    /\ UNCHANGED <<map, energy_resources, mineral_resources, scientific_resources,
                   robot_senders, pc, first_amount, decremented, sci_broadcast,
                   station_receiver, station_dropped, robots_dropped, robot_vars,
                   map_call, sync_vars, production_vars, map_at_broadcast, robot_call>>

\* A mirror update that records the entry even when nothing remains
keep_resource_update(table, position, remaining) ==
    Insert(table, position, remaining)

\* A mirror update that leaves the cache as it is
ignore_resource_update(table, position, remaining) == table

\* A mirror update that forgets the entry whatever remains
drop_resource_update(table, position, remaining) ==
    Remove(table, position)

\* The arms of StationMessage::ResourceUpdate
apply_resource_update(table, position, remaining) ==
    IF remaining > 0 THEN Insert(table, position, remaining)
    ELSE Remove(table, position)

\* A snapshot merged into the cache: entries it does not mention survive
merge_cache(cache, snapshot) ==
    [p \in (DOMAIN cache) \cup (DOMAIN snapshot) |->
        IF p \in DOMAIN snapshot THEN snapshot[p] ELSE cache[p]]

\* The arm of StationMessage::ResourcesUpdate: `self.local_x_resources = x_resources`
replace_cache(cache, snapshot) == snapshot

\* One iteration of `while let Ok(message) = self.station_receiver.try_recv()`
process_station_messages(robot_id) ==
    LET message == try_recv(station_receiver[robot_id]).taken IN
    /\ RobotAlive(robot_id)
    /\ station_receiver[robot_id] # <<>>
    /\ station_receiver' =
         [station_receiver EXCEPT ![robot_id] = try_recv(station_receiver[robot_id]).rest]
    /\ local_energy_resources' =
         IF message.type = "ResourcesUpdate"
         THEN [local_energy_resources EXCEPT ![robot_id] =
                  replace_cache(@, message.energy_resources)]
         ELSE IF message.type = "ResourceUpdate" /\ message.resource_type = "Energy"
         THEN [local_energy_resources EXCEPT ![robot_id] =
                  apply_resource_update(@, message.position, message.remaining)]
         ELSE local_energy_resources
    /\ local_mineral_resources' =
         IF message.type = "ResourcesUpdate"
         THEN [local_mineral_resources EXCEPT ![robot_id] =
                  replace_cache(@, message.mineral_resources)]
         ELSE IF message.type = "ResourceUpdate" /\ message.resource_type = "Minerals"
         THEN [local_mineral_resources EXCEPT ![robot_id] =
                  apply_resource_update(@, message.position, message.remaining)]
         ELSE local_mineral_resources
    /\ local_scientific_resources' =
         IF message.type = "ResourcesUpdate"
         THEN [local_scientific_resources EXCEPT ![robot_id] =
                  replace_cache(@, message.scientific_resources)]
         ELSE IF message.type = "ResourceUpdate" /\ message.resource_type = "ScientificData"
         THEN [local_scientific_resources EXCEPT ![robot_id] =
                  apply_resource_update(@, message.position, message.remaining)]
         ELSE local_scientific_resources
    /\ UNCHANGED <<map, station_vars, robot_receiver, station_dropped, robots_dropped,
                   pending_consumed_resources, pending_validated, map_call,
                   sync_vars, production_vars, map_at_broadcast, robot_call>>

----------------------------------------------------------------------------
(* SpecSwarm: the station loop driven by RobotCommunication sessions *)

\* The StationCommunication, and with it the receiving end of the robots'
\* channel, goes away; process_messages borrows it, so not during a call.
drop_station ==
    /\ pc = "idle"
    /\ ~station_dropped
    /\ station_dropped' = TRUE
    /\ robot_receiver' = <<>>
    /\ UNCHANGED <<map, station_vars, station_receiver, robots_dropped, robot_vars,
                   map_call, sync_vars, production_vars, map_at_broadcast, robot_call>>

\* A RobotCommunication, and with it its receiving end, goes away.
drop_robot(robot_id) ==
    /\ RobotAlive(robot_id)
    /\ robots_dropped' = robots_dropped \cup {robot_id}
    /\ station_receiver' = [station_receiver EXCEPT ![robot_id] = <<>>]
    /\ UNCHANGED <<map, station_vars, robot_receiver, station_dropped, robot_vars,
                   map_call, sync_vars, production_vars, map_at_broadcast, robot_call>>

\* Robot 1 discovers and consumes energy and scientific data; the other
\* robots consume the scientific point and ask for the state.
SwarmKinds == {"Energy", "ScientificData"}

SwarmDiscoveries(robot_id) ==
    IF robot_id = 1 THEN {<<k, ResourcePos>> : k \in SwarmKinds} ELSE {}

SwarmConsumptions(robot_id) ==
    IF robot_id = 1
    THEN {<<k, ResourcePos, 1>> : k \in SwarmKinds}
    ELSE {<<"ScientificData", ResourcePos, 1>>}

\* Every session is registered before it is used, as the tests of
\* station/communication.rs register a robot before it sends.
InitSwarm ==
    /\ \E tile \in {Energy(MaxAmount), ScientificPoint(MaxAmount)} :
          map = SetTile(BlankMap, ResourcePos.x, ResourcePos.y, tile)
    /\ energy_resources = EmptyTable
    /\ mineral_resources = EmptyTable
    /\ scientific_resources = EmptyTable
    /\ robot_senders = Robots
    /\ pc = "idle"
    /\ call = NoCall
    /\ first_amount = [kp \in KindPos |-> None]
    /\ decremented = [kp \in KindPos |-> 0]
    /\ sci_broadcast = [p \in PosInputs |-> None]
    /\ InitChannels
    /\ InitRobots
    /\ map_call = NoMapCall
    /\ robot_call = NoRobotCall
    /\ InitProduction
    /\ InitKnowledge

NextSwarm ==
    \/ \E r \in Robots : \E d \in SwarmDiscoveries(r) :
          report_resource_discovered(r, d[1], d[2])
    \/ \E r \in Robots : \E c \in SwarmConsumptions(r) :
          register_consumed_resource(r, c[1], c[2], c[3])
    \/ \E r \in Robots : report_pending_consumed_resources(r)
    \/ \E r \in Robots : request_resources_state(r)
    \/ \E r \in Robots : process_station_messages(r)
    \/ drop_station
    \/ \E r \in Robots : drop_robot(r)
    \/ process_messages_call
    \/ handle_resource_discovered
    \/ handle_resource_consumed
    \/ handle_request_resources_state
    \/ process_messages_return

SpecSwarm == InitSwarm /\ [][NextSwarm]_vars

----------------------------------------------------------------------------
(* Properties of SpecSwarm *)

\* The broadcast of a consumed scientific point still waits in the channel
Waiting(robot, position) ==
    \E i \in DOMAIN station_receiver[robot] :
       station_receiver[robot][i] = ResourceUpdate("ScientificData", position, 0)

\* C5: once a scientific point has been consumed at the station, every
\* registered robot that has processed the broadcast answers
\* is_resource_available(ScientificData, position, n) = false for every n,
\* from then on.
C5_ConsumedScienceUnavailable ==
    \A position \in PosInputs : \A robot \in Robots \ robots_dropped :
       (/\ sci_broadcast[position] # None
        /\ robot \in sci_broadcast[position][1]
        /\ ~Waiting(robot, position))
       => \A n \in 0 .. MaxAmount + 1 :
             ~is_resource_available(robot, "ScientificData", position, n)

\* Robot 2 has processed everything it was sent, the broadcast included.
C5_Witness ==
    /\ sci_broadcast[ResourcePos] = Some(Robots)
    /\ 2 \notin robots_dropped
    /\ station_receiver[2] = <<>>
    /\ ~is_resource_available(2, "ScientificData", ResourcePos, 0)

\* C10: sends never block and never fail visibly. With the station's
\* receiver gone the robots' sends queue nothing, the three reporting
\* operations can still be taken and report_pending_consumed_resources
\* empties the pending list; with a robot's receiver gone nothing is queued
\* for it and every other registered robot still gets its ResourceUpdate;
\* no operation of a robot depends on what its channel holds, so none waits
\* for an Acknowledgement.
C10_SendsNeverBlock ==
    [][ /\ station_dropped => (robot_receiver = <<>> /\ robot_receiver' = <<>>)
        /\ \A robot \in Robots \ robots_dropped :
              /\ CanSend(1) => ENABLED request_resources_state(robot)
              /\ CanSend(1) =>
                    \A d \in SwarmDiscoveries(robot) :
                       ENABLED report_resource_discovered(robot, d[1], d[2])
              /\ (/\ pending_consumed_resources[robot] # <<>>
                  /\ CanSend(Len(pending_consumed_resources[robot])))
                 => ENABLED (/\ report_pending_consumed_resources(robot)
                             /\ pending_consumed_resources'[robot] = <<>>)
        /\ \A robot \in robots_dropped : station_receiver'[robot] = <<>>
        /\ (/\ Handled("ResourceConsumed")
            /\ Msg.position \in DOMAIN Table(Msg.resource_type))
           => \A robot \in Live :
                 /\ Extends(robot)
                 /\ Len(OfType(Sent(robot), "ResourceUpdate")) = 1
      ]_vars

\* The point was consumed after robot 2 went away: robot 1 alone was sent
\* the update and holds it; then the station went away and robot 1 reported
\* into the void.
C10_Witness ==
    /\ 2 \in robots_dropped
    /\ sci_broadcast[ResourcePos] = Some({1})
    /\ Waiting(1, ResourcePos)
    /\ station_dropped
    /\ pending_consumed_resources[1] = <<>>
    /\ robot_receiver = <<>>

----------------------------------------------------------------------------
(* SpecQuery: is_resource_available asked of a session whose caches were   *)
(* filled directly, as test_is_resource_available does                     *)

\* The session the tests of robot/communication.rs build
TestRobot == 1

CachePositions == {ResourcePos, EmptyPos}
CacheInputs == UNION {[D -> 1 .. MaxAmount] : D \in SUBSET CachePositions}
QueryPositions == CachePositions \cup {OutPosX}
QueryAmounts == 0 .. MaxAmount + 1

call_is_resource_available(robot_id, resource_type, position, required_amount) ==
    /\ robot_call' =
         [fn |-> "is_resource_available", robot_id |-> robot_id,
          resource_type |-> resource_type, position |-> position,
          required_amount |-> required_amount,
          ret |-> is_resource_available(robot_id, resource_type, position,
                                        required_amount)]
    /\ UNCHANGED <<map, station_vars, channel_vars, robot_vars, map_call, sync_vars,
                   production_vars, map_at_broadcast>>

InitQuery ==
    /\ map = BlankMap
    /\ InitStation
    /\ InitChannels
    /\ \E energy \in CacheInputs, mineral \in CacheInputs, scientific \in CacheInputs :
          /\ local_energy_resources =
                [r \in Robots |-> IF r = TestRobot THEN energy ELSE EmptyTable]
          /\ local_mineral_resources =
                [r \in Robots |-> IF r = TestRobot THEN mineral ELSE EmptyTable]
          /\ local_scientific_resources =
                [r \in Robots |-> IF r = TestRobot THEN scientific ELSE EmptyTable]
    /\ pending_consumed_resources = [r \in Robots |-> <<>>]
    /\ pending_validated = [r \in Robots |-> <<>>]
    /\ map_call = NoMapCall
    /\ robot_call = NoRobotCall
    /\ InitProduction
    /\ InitKnowledge

NextQuery ==
    \E k \in Kinds, position \in QueryPositions, required \in QueryAmounts :
       call_is_resource_available(TestRobot, k, position, required)

SpecQuery == InitQuery /\ [][NextQuery]_vars

\* The robot's cache of one kind
Cache(robot_id, resource_type) ==
    CASE resource_type = "Energy" -> local_energy_resources[robot_id]
      [] resource_type = "Minerals" -> local_mineral_resources[robot_id]
      [] resource_type = "ScientificData" -> local_scientific_resources[robot_id]

\* C11: is_resource_available(kind, position, required) is true, for Energy
\* and Minerals, iff the cache of that kind has an entry at the position
\* with amount >= required, and for ScientificData iff the scientific cache
\* has an entry at the position, whatever required is; it depends on the
\* cache of the requested kind only and changes no state.
C11_AvailabilityReadsCache ==
    [][ (robot_call' # robot_call /\ robot_call'.fn = "is_resource_available")
        => LET q == robot_call'
               cache == Cache(q.robot_id, q.resource_type)
               has == q.position \in DOMAIN cache
           IN /\ q.ret = IF q.resource_type = "ScientificData" THEN has
                         ELSE has /\ cache[q.position] >= q.required_amount
              /\ UNCHANGED <<map, station_vars, channel_vars, robot_vars>>
      ]_vars

\* A scientific entry is available although more is asked than it is worth.
C11_Witness ==
    /\ robot_call.fn = "is_resource_available"
    /\ robot_call.resource_type = "ScientificData"
    /\ robot_call.position = ResourcePos
    /\ robot_call.required_amount = MaxAmount + 1
    /\ robot_call.ret = TRUE

----------------------------------------------------------------------------
(* SpecRobot: one RobotCommunication driven through both channel ends, as  *)
(* the tests of robot/communication.rs drive it                            *)

SnapshotInputs ==
    {ResourcesUpdate(EmptyTable, EmptyTable, EmptyTable),
     ResourcesUpdate(Insert(EmptyTable, ResourcePos, MaxAmount), EmptyTable,
                     Insert(EmptyTable, ResourcePos, 1)),
     ResourcesUpdate(Insert(Insert(EmptyTable, ResourcePos, MaxAmount), EmptyPos, MaxAmount),
                     Insert(EmptyTable, EmptyPos, 1),
                     Insert(EmptyTable, ResourcePos, 1))}

StationInputs ==
    {ResourceUpdate(k, ResourcePos, a) : k \in Kinds, a \in Amounts}
        \cup SnapshotInputs
        \cup {Acknowledgement("Resource discovered", ResourcePos)}

RegisterInputs == {<<k, ResourcePos, a>> : k \in Kinds, a \in {1, MaxAmount + 1}}

\* `let _ = robot_sender.send(StationMessage::..)`
harness_send(robot_id, message) ==
    /\ Len(station_receiver[robot_id]) < MaxInbox
    /\ station_receiver' = send_to_robot(station_receiver, robot_id, message)
    /\ UNCHANGED <<map, station_vars, robot_receiver, station_dropped, robots_dropped,
                   robot_vars, map_call, sync_vars,
                   production_vars, map_at_broadcast, robot_call>>

\* `station_receiver.recv_timeout(..)`
harness_recv ==
    /\ robot_receiver # <<>>
    /\ robot_receiver' = try_recv(robot_receiver).rest
    /\ UNCHANGED <<map, station_vars, station_receiver, station_dropped, robots_dropped,
                   robot_vars, map_call, sync_vars,
                   production_vars, map_at_broadcast, robot_call>>

InitRobot ==
    /\ map = BlankMap
    /\ InitStation
    /\ InitChannels
    /\ InitRobots
    /\ map_call = NoMapCall
    /\ robot_call = NoRobotCall
    /\ InitProduction
    /\ InitKnowledge

NextRobot ==
    \/ \E m \in StationInputs : harness_send(TestRobot, m)
    \/ process_station_messages(TestRobot)
    \/ \E c \in RegisterInputs : register_consumed_resource(TestRobot, c[1], c[2], c[3])
    \/ report_pending_consumed_resources(TestRobot)
    \/ harness_recv

SpecRobot == InitRobot /\ [][NextRobot]_vars

\* The step takes one message of the given type off the channel of the robot
Processes(robot_id, type) ==
    /\ station_receiver[robot_id] # <<>>
    /\ Head(station_receiver[robot_id]).type = type
    /\ station_receiver'[robot_id] = Tail(station_receiver[robot_id])
    /\ robot_id \notin robots_dropped'

Received(robot_id) == Head(station_receiver[robot_id])

OtherCachesUnchanged(robot_id, resource_type) ==
    /\ resource_type # "Energy"
         => local_energy_resources'[robot_id] = local_energy_resources[robot_id]
    /\ resource_type # "Minerals"
         => local_mineral_resources'[robot_id] = local_mineral_resources[robot_id]
    /\ resource_type # "ScientificData"
         => local_scientific_resources'[robot_id] = local_scientific_resources[robot_id]

\* The cache of the kind after the step is the given table
CacheBecomes(robot_id, resource_type, table) ==
    CASE resource_type = "Energy" -> local_energy_resources'[robot_id] = table
      [] resource_type = "Minerals" -> local_mineral_resources'[robot_id] = table
      [] resource_type = "ScientificData" -> local_scientific_resources'[robot_id] = table

\* C12: processing ResourceUpdate {kind, position, remaining} maps the
\* position to remaining in the cache of that kind when remaining > 0
\* (inserting or overwriting) and removes the entry otherwise; every other
\* position of that cache, the caches of the two other kinds and the
\* pending list are unchanged.
C12_ResourceUpdateSetsOneEntry ==
    [][ \A r \in Robots : Processes(r, "ResourceUpdate") =>
          LET m == Received(r)
              cache == Cache(r, m.resource_type)
          IN /\ CacheBecomes(r, m.resource_type,
                   [p \in IF m.remaining > 0 THEN DOMAIN cache \cup {m.position}
                          ELSE DOMAIN cache \ {m.position} |->
                       IF p = m.position THEN m.remaining ELSE cache[p]])
             /\ OtherCachesUnchanged(r, m.resource_type)
             /\ pending_consumed_resources' = pending_consumed_resources
      ]_vars

\* A mineral update overwrote one entry next to another one that stayed,
\* while a consumption was pending.
C12_Witness ==
    /\ local_mineral_resources[TestRobot] =
          Insert(Insert(EmptyTable, EmptyPos, 1), ResourcePos, MaxAmount)
    /\ local_energy_resources[TestRobot] =
          Insert(Insert(EmptyTable, ResourcePos, MaxAmount), EmptyPos, MaxAmount)
    /\ pending_consumed_resources[TestRobot] # <<>>
    /\ station_receiver[TestRobot] = <<>>

\* C13: processing a ResourcesUpdate snapshot makes each of the three
\* caches equal to the snapshot's table of that kind; no earlier entry
\* survives, so applying the same snapshot again changes nothing and the
\* last snapshot processed determines the caches. The pending list stays.
C13_SnapshotReplacesCaches ==
    [][ \A r \in Robots : Processes(r, "ResourcesUpdate") =>
          LET m == Received(r) IN
          /\ local_energy_resources'[r] = m.energy_resources
          /\ local_mineral_resources'[r] = m.mineral_resources
          /\ local_scientific_resources'[r] = m.scientific_resources
          /\ pending_consumed_resources' = pending_consumed_resources
          /\ (/\ local_energy_resources[r] = m.energy_resources
              /\ local_mineral_resources[r] = m.mineral_resources
              /\ local_scientific_resources[r] = m.scientific_resources)
               => UNCHANGED <<local_energy_resources, local_mineral_resources,
                              local_scientific_resources>>
      ]_vars

\* The caches are the snapshot with entries at both positions although a
\* consumption registered against the energy cache is still pending: the
\* local decrement did not survive.
C13_Witness ==
    /\ local_energy_resources[TestRobot] =
          Insert(Insert(EmptyTable, ResourcePos, MaxAmount), EmptyPos, MaxAmount)
    /\ local_mineral_resources[TestRobot] = Insert(EmptyTable, EmptyPos, 1)
    /\ local_scientific_resources[TestRobot] = Insert(EmptyTable, ResourcePos, 1)
    /\ pending_consumed_resources[TestRobot] = <<<<"Energy", ResourcePos, 1>>>>
    /\ pending_validated[TestRobot] = <<TRUE>>
    /\ station_receiver[TestRobot] = <<>>

\* The step appends one tuple to the pending list of the robot
Registers(robot_id) ==
    Len(pending_consumed_resources'[robot_id]) = Len(pending_consumed_resources[robot_id]) + 1

Registered(robot_id) ==
    pending_consumed_resources'[robot_id][Len(pending_consumed_resources'[robot_id])]

\* The step puts a ResourceConsumed of the robot on the station's channel
SendsConsumed(robot_id) ==
    /\ Len(robot_receiver') > Len(robot_receiver)
    /\ \E i \in Len(robot_receiver) + 1 .. Len(robot_receiver') :
          /\ robot_receiver'[i].id = robot_id
          /\ robot_receiver'[i].msg.type = "ResourceConsumed"

C15_ConsumedWasValidated ==
    [][ \A r \in Robots : SendsConsumed(r) =>
          \A i \in DOMAIN pending_validated[r] : pending_validated[r][i]
      ]_vars

----------------------------------------------------------------------------
(* MapKnowledge (station/sync.rs)                                          *)

Max(a, b) == IF a >= b THEN a ELSE b

ExploredTile(tile, version, explorer_id) ==
    [tile |-> tile, version |-> version, explorer_id |-> explorer_id]

\* A record that carries the version the store had before the merge
StaleMapUpdate(version, positions, timestamp, robot_id) ==
    [version |-> version - 1, positions |-> positions,
     timestamp |-> timestamp, robot_id |-> robot_id]

MapUpdate(version, positions, timestamp, robot_id) ==
    [version |-> version, positions |-> positions,
     timestamp |-> timestamp, robot_id |-> robot_id]

\* The orders in which `for .. in robot_tiles` may visit the keys of a HashMap
IterationOrders(keys) ==
    {order \in [1 .. Cardinality(keys) -> keys] :
        \A i, j \in DOMAIN order : i # j => order[i] # order[j]}

\* A comparison that lets an equal version win
not_older(robot_version, station_version) == robot_version >= station_version

\* A comparison that lets any other version win
differs(robot_version, station_version) == robot_version # station_version

\* `robot_tile.version > station_tile.version`
newer(robot_version, station_version) == robot_version > station_version

\* The loop of merge_robot_knowledge over the incoming tiles in one order
RECURSIVE merge_loop(_, _, _, _)
merge_loop(explored_tiles, updated_positions, robot_tiles, order) ==
    IF order = <<>>
    THEN [explored_tiles |-> explored_tiles, updated_positions |-> updated_positions]
    ELSE LET position == Head(order)
             robot_tile == robot_tiles[position]
         IN IF position \in DOMAIN explored_tiles
            THEN IF newer(robot_tile.version, explored_tiles[position].version)
                 THEN merge_loop(Insert(explored_tiles, position, robot_tile),
                                 Append(updated_positions, position),
                                 robot_tiles, Tail(order))
                 ELSE merge_loop(explored_tiles, updated_positions,
                                 robot_tiles, Tail(order))
            ELSE merge_loop(Insert(explored_tiles, position, robot_tile),
                            Append(updated_positions, position),
                            robot_tiles, Tail(order))

\* A merge that records an update whether or not a position was updated
always_record(store, merged, timestamp, robot_id) ==
    [version |-> store.version + 1,
     explored_tiles |-> merged.explored_tiles,
     updates_history |->
         Append(store.updates_history,
                MapUpdate(store.version + 1, merged.updated_positions,
                          timestamp, robot_id))]

\* `if !updated_positions.is_empty() { self.version += 1; self.updates_history.push(..) }`
record_update(store, merged, timestamp, robot_id) ==
    IF merged.updated_positions # <<>>
    THEN [version |-> store.version + 1,
          explored_tiles |-> merged.explored_tiles,
          updates_history |->
              Append(store.updates_history,
                     MapUpdate(store.version + 1, merged.updated_positions,
                               timestamp, robot_id))]
    ELSE [store EXCEPT !.explored_tiles = merged.explored_tiles]

\* A comparison by which the other store also wins a tie
adopts_tie(other_version, version) == other_version >= version

\* `other_tile.version > tile.version`
adopts(other_version, version) == other_version > version

\* A loop that takes newer cells at shared positions and skips the positions
\* only the other store knows
RECURSIVE resolve_shared(_, _, _)
resolve_shared(explored_tiles, other_tiles, order) ==
    IF order = <<>> THEN explored_tiles
    ELSE LET position == Head(order)
             other_tile == other_tiles[position]
         IN IF position \in DOMAIN explored_tiles
               /\ adopts(other_tile.version, explored_tiles[position].version)
            THEN resolve_shared(Insert(explored_tiles, position, other_tile),
                                other_tiles, Tail(order))
            ELSE resolve_shared(explored_tiles, other_tiles, Tail(order))

\* The loop of resolve_conflicts over the tiles of the other store
RECURSIVE resolve_loop(_, _, _)
resolve_loop(explored_tiles, other_tiles, order) ==
    IF order = <<>> THEN explored_tiles
    ELSE LET position == Head(order)
             other_tile == other_tiles[position]
         IN IF position \in DOMAIN explored_tiles
            THEN IF adopts(other_tile.version, explored_tiles[position].version)
                 THEN resolve_loop(Insert(explored_tiles, position, other_tile),
                                   other_tiles, Tail(order))
                 ELSE resolve_loop(explored_tiles, other_tiles, Tail(order))
            ELSE resolve_loop(Insert(explored_tiles, position, other_tile),
                              other_tiles, Tail(order))

\* A resolution that only catches up with the greater version
greater_version(version, other_version) == Max(version, other_version)

\* A resolution that counts one step from the store's own version only
own_version_next(version, other_version) == version + 1

\* `self.version = self.version.max(other.version) + 1`
resolved_version(version, other_version) == Max(version, other_version) + 1

\* A test that also counts two cells of different explorers as a conflict
conflicting_cells(tile, other_tile) ==
    /\ tile.version = other_tile.version
    /\ tile.tile # other_tile.tile \/ tile.explorer_id # other_tile.explorer_id

\* `tile.version == other_tile.version && tile.tile != other_tile.tile`
conflicting(tile, other_tile) ==
    /\ tile.version = other_tile.version
    /\ tile.tile # other_tile.tile

\* MapKnowledge::has_conflicts: the loop over self's tiles in one order,
\* returning at the first conflict
RECURSIVE has_conflicts(_, _, _)
has_conflicts(explored_tiles, other_tiles, order) ==
    IF order = <<>> THEN FALSE
    ELSE LET position == Head(order) IN
         IF position \in DOMAIN other_tiles
               /\ conflicting(explored_tiles[position], other_tiles[position])
         THEN TRUE
         ELSE has_conflicts(explored_tiles, other_tiles, Tail(order))

\* MapKnowledge::merge_robot_knowledge
merge_robot_knowledge(robot_tiles, robot_id, order, timestamp) ==
    LET merged == merge_loop(knowledge.explored_tiles, <<>>, robot_tiles, order) IN
    /\ knowledge.version < MaxVersion
    /\ knowledge' = record_update(knowledge, merged, timestamp, robot_id)
    /\ sync_call' = [fn |-> "merge_robot_knowledge", robot_tiles |-> robot_tiles,
                     robot_id |-> robot_id, ret |-> merged.updated_positions,
                     repeated |-> /\ sync_call.fn = "merge_robot_knowledge"
                                  /\ sync_call.robot_tiles = robot_tiles]
    /\ UNCHANGED <<map, station_vars, channel_vars, robot_vars, map_call, robot_call,
                   production_vars, map_at_broadcast>>

\* MapKnowledge::resolve_conflicts; `other: &MapKnowledge` is a shared borrow,
\* which the method cannot assign through: other_after is the argument
resolve_conflicts(other, order) ==
    /\ Max(knowledge.version, other.version) < MaxVersion
    /\ knowledge' =
         [knowledge EXCEPT
             !.explored_tiles = resolve_loop(@, other.explored_tiles, order),
             !.version = resolved_version(@, other.version)]
    /\ sync_call' = [fn |-> "resolve_conflicts", other |-> other, other_after |-> other]
    /\ UNCHANGED <<map, station_vars, channel_vars, robot_vars, map_call, robot_call,
                   production_vars, map_at_broadcast>>

----------------------------------------------------------------------------
(* SpecSync: one MapKnowledge store and the calls made on it               *)

SyncPositions == {ResourcePos, EmptyPos}
SyncTiles == {Empty, Obstacle}
CellVersions == MaxCellVersion - 1 .. MaxCellVersion
Clock == 0 .. MaxClock

\* The tiles a robot reports, explored by itself
RobotTiles(robot_id) ==
    UNION {[D -> {ExploredTile(t, v, Some(robot_id)) : t \in SyncTiles, v \in CellVersions}] :
              D \in SUBSET SyncPositions}

\* Another store of the station's map knowledge
OtherStores ==
    {[version |-> v, explored_tiles |-> tiles, updates_history |-> <<>>] :
        v \in 0 .. MaxVersion - 1, tiles \in RobotTiles(2)}

InitSync ==
    /\ map = BlankMap
    /\ InitStation
    /\ InitChannels
    /\ InitRobots
    /\ map_call = NoMapCall
    /\ robot_call = NoRobotCall
    /\ InitProduction
    /\ InitKnowledge

NextSync ==
    \/ \E robot_id \in Robots : \E robot_tiles \in RobotTiles(robot_id) :
          \E order \in IterationOrders(DOMAIN robot_tiles) : \E timestamp \in Clock :
             merge_robot_knowledge(robot_tiles, robot_id, order, timestamp)
    \/ \E other \in OtherStores \cup {knowledge} :
          \E order \in IterationOrders(DOMAIN other.explored_tiles) :
             resolve_conflicts(other, order)

SpecSync == InitSync /\ [][NextSync]_vars

\* The step is a call of the given method of the store
SyncCalled(fn) ==
    /\ sync_call'.fn = fn
    /\ sync_call' # sync_call \/ knowledge' # knowledge

\* The positions whose cell the step inserted or replaced
ChangedCells ==
    {p \in DOMAIN knowledge'.explored_tiles :
        \/ p \notin DOMAIN knowledge.explored_tiles
        \/ knowledge'.explored_tiles[p] # knowledge.explored_tiles[p]}

Range(seq) == {seq[i] : i \in DOMAIN seq}

\* C16: merge_robot_knowledge treats each incoming (position, cell) on its
\* own: an unknown position is inserted, a known one is overwritten when
\* the incoming version is strictly greater and left untouched when it is
\* equal or lower, even if the tile differs; the returned list holds
\* exactly the inserted or overwritten positions, each once.
C16_MergeDecidesPerCell ==
    [][ SyncCalled("merge_robot_knowledge") =>
          LET incoming == sync_call'.robot_tiles
              old == knowledge.explored_tiles
              new == knowledge'.explored_tiles
              Wins(p) == p \notin DOMAIN old \/ incoming[p].version > old[p].version
          IN /\ DOMAIN new = DOMAIN old \cup DOMAIN incoming
             /\ \A p \in DOMAIN new :
                   new[p] = IF p \in DOMAIN incoming /\ Wins(p) THEN incoming[p] ELSE old[p]
             /\ Range(sync_call'.ret) = {p \in DOMAIN incoming : Wins(p)}
             /\ Len(sync_call'.ret) = Cardinality(Range(sync_call'.ret))
      ]_vars

\* A merge of two cells updated one position and left the other, whose
\* stored cell has the incoming version but another tile, as it was.
C16_Witness ==
    /\ sync_call.fn = "merge_robot_knowledge"
    /\ sync_call.ret = <<ResourcePos>>
    /\ EmptyPos \in DOMAIN sync_call.robot_tiles
    /\ EmptyPos \in DOMAIN knowledge.explored_tiles
    /\ knowledge.explored_tiles[EmptyPos].version = sync_call.robot_tiles[EmptyPos].version
    /\ knowledge.explored_tiles[EmptyPos].tile # sync_call.robot_tiles[EmptyPos].tile
    /\ knowledge.explored_tiles[ResourcePos] = sync_call.robot_tiles[ResourcePos]

\* C17: when merge_robot_knowledge updated at least one position, version
\* grows by exactly 1 and exactly one MapUpdate is appended, carrying the
\* new version, exactly the updated positions and the given robot id;
\* when it updated none, version and updates_history are unchanged.
C17_MergeBumpsOnce ==
    [][ SyncCalled("merge_robot_knowledge") =>
          IF ChangedCells # {}
          THEN /\ knowledge'.version = knowledge.version + 1
               /\ Len(knowledge'.updates_history) = Len(knowledge.updates_history) + 1
               /\ SubSeq(knowledge'.updates_history, 1, Len(knowledge.updates_history))
                     = knowledge.updates_history
               /\ LET update == knowledge'.updates_history[Len(knowledge'.updates_history)]
                  IN /\ update.version = knowledge'.version
                     /\ Range(update.positions) = ChangedCells
                     /\ Len(update.positions) = Cardinality(ChangedCells)
                     /\ update.robot_id = sync_call'.robot_id
          ELSE /\ knowledge'.version = knowledge.version
               /\ knowledge'.updates_history = knowledge.updates_history
      ]_vars

\* The second merge of robot 2 updated two cells at once and the store is
\* at version 2 with two records.
C17_Witness ==
    /\ sync_call.fn = "merge_robot_knowledge"
    /\ sync_call.robot_id = 2
    /\ Len(sync_call.ret) = 2
    /\ knowledge.version = 2
    /\ Len(knowledge.updates_history) = 2
    /\ knowledge.updates_history[2].version = 2
    /\ knowledge.updates_history[2].positions = sync_call.ret
    /\ knowledge.updates_history[2].robot_id = 2

\* C18: merge_robot_knowledge with an empty incoming set returns an empty
\* list and leaves version, explored_tiles and updates_history unchanged.
C18_EmptyMergeKeepsStore ==
    [][ (SyncCalled("merge_robot_knowledge") /\ sync_call'.robot_tiles = EmptyTable)
          => /\ sync_call'.ret = <<>>
             /\ knowledge'.version = knowledge.version
             /\ knowledge'.explored_tiles = knowledge.explored_tiles
             /\ knowledge'.updates_history = knowledge.updates_history
      ]_vars

\* An empty set was merged into a store that already knows a cell.
C18_Witness ==
    /\ sync_call.fn = "merge_robot_knowledge"
    /\ sync_call.robot_tiles = EmptyTable
    /\ sync_call.ret = <<>>
    /\ knowledge.version = 1
    /\ knowledge.explored_tiles # EmptyTable
    /\ Len(knowledge.updates_history) = 1

\* C19: when the same incoming set is merged twice in a row, the second
\* merge returns no position, overwrites no cell, does not increment
\* version and appends no MapUpdate.
C19_SecondMergeChangesNothing ==
    [][ (/\ SyncCalled("merge_robot_knowledge")
         /\ sync_call.fn = "merge_robot_knowledge"
         /\ sync_call'.robot_tiles = sync_call.robot_tiles)
          => /\ sync_call'.ret = <<>>
             /\ knowledge' = knowledge
      ]_vars

\* The set whose first merge updated two cells was merged again.
C19_Witness ==
    /\ sync_call.fn = "merge_robot_knowledge"
    /\ sync_call.repeated
    /\ sync_call.ret = <<>>
    /\ DOMAIN sync_call.robot_tiles = SyncPositions
    /\ knowledge.explored_tiles = sync_call.robot_tiles
    /\ knowledge.version = 1
    /\ Len(knowledge.updates_history[1].positions) = 2

\* C20 as stated: over merge_robot_knowledge and resolve_conflicts calls,
\* version never decreases, grows by exactly 1 in a call that changes at
\* least one cell and stays in a call that changes none.
C20_VersionCountsChanges ==
    [][ /\ knowledge'.version >= knowledge.version
        /\ knowledge'.version =
              IF ChangedCells # {} THEN knowledge.version + 1 ELSE knowledge.version
      ]_vars

\* C20: over merge_robot_knowledge and resolve_conflicts calls, version
\* never decreases; merge_robot_knowledge increments it by exactly 1 when
\* it changes at least one cell and leaves it when it changes none;
\* resolve_conflicts sets it to max(own version, other's version) + 1
\* whether or not a cell changed.
C20_VersionNeverDecreases ==
    [][ /\ knowledge'.version >= knowledge.version
        /\ SyncCalled("merge_robot_knowledge")
              => knowledge'.version =
                    IF ChangedCells # {} THEN knowledge.version + 1 ELSE knowledge.version
        /\ SyncCalled("resolve_conflicts")
              => /\ knowledge'.version > knowledge.version
                 /\ knowledge'.version =
                       (IF knowledge.version >= sync_call'.other.version
                        THEN knowledge.version ELSE sync_call'.other.version) + 1
      ]_vars

\* A resolution against an empty store at a later version changed no cell
\* and moved the version from 0 to 2.
C20_Witness ==
    /\ sync_call.fn = "resolve_conflicts"
    /\ sync_call.other.explored_tiles = EmptyTable
    /\ sync_call.other.version = 1
    /\ knowledge.explored_tiles = EmptyTable
    /\ knowledge.version = 2
    /\ knowledge.updates_history = <<>>

\* C21: after a.resolve_conflicts(b), a.version is max(a.version before,
\* b.version) + 1, hence strictly greater than both, for all stores a and
\* b, b empty or b equal to a included; b is not modified.
C21_ResolveVersionAhead ==
    [][ SyncCalled("resolve_conflicts") =>
          LET other == sync_call'.other IN
          /\ knowledge'.version =
                (IF knowledge.version >= other.version
                 THEN knowledge.version ELSE other.version) + 1
          /\ knowledge'.version > knowledge.version
          /\ knowledge'.version > other.version
          /\ sync_call'.other_after = other
      ]_vars

\* A store that knows cells was resolved against a copy of itself.
C21_Witness ==
    /\ sync_call.fn = "resolve_conflicts"
    /\ sync_call.other.explored_tiles = knowledge.explored_tiles
    /\ sync_call.other.updates_history = knowledge.updates_history
    /\ sync_call.other.updates_history # <<>>
    /\ sync_call.other.version = 1
    /\ knowledge.version = 2

\* C22: resolve_conflicts replaces self's cell at a position both stores
\* know by other's cell iff other's cell version is strictly greater; on
\* an equal or lower version self keeps its cell (tile, version and
\* explorer id).
C22_ResolveAdoptsNewerCells ==
    [][ SyncCalled("resolve_conflicts") =>
          LET mine == knowledge.explored_tiles
              theirs == sync_call'.other.explored_tiles
          IN \A p \in DOMAIN mine \cap DOMAIN theirs :
                /\ p \in DOMAIN knowledge'.explored_tiles
                /\ knowledge'.explored_tiles[p] =
                      IF theirs[p].version > mine[p].version THEN theirs[p] ELSE mine[p]
      ]_vars

\* At one shared position the other store's newer cell was adopted, at the
\* other a tie with another tile and another explorer kept self's cell.
C22_Witness ==
    /\ sync_call.fn = "resolve_conflicts"
    /\ DOMAIN sync_call.other.explored_tiles = SyncPositions
    /\ DOMAIN knowledge.explored_tiles = SyncPositions
    /\ knowledge.explored_tiles[ResourcePos] = sync_call.other.explored_tiles[ResourcePos]
    /\ knowledge.explored_tiles[ResourcePos].version = MaxCellVersion
    /\ knowledge.updates_history # <<>>
    /\ knowledge.updates_history[1].positions = <<ResourcePos, EmptyPos>>
    /\ knowledge.updates_history[1].robot_id = 1
    /\ knowledge.explored_tiles[EmptyPos].explorer_id = Some(1)
    /\ knowledge.explored_tiles[EmptyPos].version =
          sync_call.other.explored_tiles[EmptyPos].version
    /\ knowledge.explored_tiles[EmptyPos].tile #
          sync_call.other.explored_tiles[EmptyPos].tile

\* has_conflicts(a, b) returns true / false whatever the iteration order
Conflicts(a_tiles, b_tiles) ==
    \A order \in IterationOrders(DOMAIN a_tiles) : has_conflicts(a_tiles, b_tiles, order)
NoConflicts(a_tiles, b_tiles) ==
    \A order \in IterationOrders(DOMAIN a_tiles) : ~has_conflicts(a_tiles, b_tiles, order)

\* C23: for all stores a and b with has_conflicts(a, b) true, after
\* a.resolve_conflicts(b) the conflict is not re-triggered:
\* has_conflicts(a, b) is false.
C23_ResolveEndsConflict ==
    [][ (/\ SyncCalled("resolve_conflicts")
         /\ Conflicts(knowledge.explored_tiles, sync_call'.other.explored_tiles))
          => NoConflicts(knowledge'.explored_tiles, sync_call'.other_after.explored_tiles)
      ]_vars

\* C24: when two stores hold a cell at the same position with cell
\* version 3 and different tiles, has_conflicts returns true,
\* resolve_conflicts picks the cell by which store is passed as other (the
\* store it is called on keeps its own cell) and the version of the
\* resolved store exceeds 3.
C24_TieAtVersionThree ==
    [][ SyncCalled("resolve_conflicts") =>
          LET mine == knowledge.explored_tiles
              theirs == sync_call'.other.explored_tiles
          IN \A p \in DOMAIN mine \cap DOMAIN theirs :
                (mine[p].version = 3 /\ theirs[p].version = 3 /\ mine[p].tile # theirs[p].tile)
                   => /\ Conflicts(mine, theirs)
                      /\ Conflicts(theirs, mine)
                      /\ knowledge'.explored_tiles[p] = mine[p]
                      /\ knowledge'.version > 3
      ]_vars

----------------------------------------------------------------------------
(* SpecSyncQuery: the read-only methods of MapKnowledge, called on stores  *)
(* drawn from a bounded set                                                *)

\* What Map::new may leave on a tile: the noise value and the seeded
\* generator are not modelled, each tile is any of the tiles it places
GeneratedTiles == {Empty, Obstacle, Energy(MaxAmount)}

\* Map::new(width, height, 0)
GeneratedMaps(width, height) ==
    {[width |-> width, height |-> height, tiles |-> tiles] :
        tiles \in [1 .. width * height -> GeneratedTiles]}

\* The loop of generate_partial_map over the explored tiles in one order
RECURSIVE overlay(_, _, _)
overlay(m, explored_tiles, order) ==
    IF order = <<>> THEN m
    ELSE LET position == Head(order) IN
         IF position.x < m.width /\ position.y < m.height
               /\ get_tile(m, position.x, position.y) # None
         THEN overlay(SetTile(m, position.x, position.y, explored_tiles[position].tile),
                      explored_tiles, Tail(order))
         ELSE overlay(m, explored_tiles, Tail(order))

\* MapKnowledge::generate_partial_map
generate_partial_map(generated, order) == overlay(generated, knowledge.explored_tiles, order)

call_generate_partial_map(width, height, generated, order) ==
    /\ sync_call' = [fn |-> "generate_partial_map", width |-> width, height |-> height,
                     ret |-> generate_partial_map(generated, order)]
    /\ UNCHANGED <<map, station_vars, channel_vars, robot_vars, map_call, robot_call,
                   knowledge, production_vars, map_at_broadcast>>

\* a.has_conflicts(&b), then b.has_conflicts(&a)
call_has_conflicts(other, order, other_order) ==
    /\ sync_call' = [fn |-> "has_conflicts", other |-> other, other_after |-> other,
                     ret |-> has_conflicts(knowledge.explored_tiles,
                                           other.explored_tiles, order),
                     reverse |-> has_conflicts(other.explored_tiles,
                                               knowledge.explored_tiles, other_order)]
    /\ UNCHANGED <<map, station_vars, channel_vars, robot_vars, map_call, robot_call,
                   knowledge, production_vars, map_at_broadcast>>

\* Stores as resolve_conflicts leaves a new store: the other store's tiles,
\* one version ahead of it
QueryStores ==
    {NewKnowledge} \cup
    {[version |-> resolved_version(NewKnowledge.version, v), explored_tiles |-> tiles,
      updates_history |-> <<>>] :
        v \in 0 .. MaxVersion - 1, tiles \in RobotTiles(1)}

InitSyncQuery ==
    /\ map = BlankMap
    /\ InitStation
    /\ InitChannels
    /\ InitRobots
    /\ map_call = NoMapCall
    /\ robot_call = NoRobotCall
    /\ InitProduction
    /\ knowledge \in QueryStores
    /\ sync_call = NoSyncCall

NextSyncQuery ==
    \/ \E other \in OtherStores \cup {knowledge} :
          \E order \in IterationOrders(DOMAIN knowledge.explored_tiles) :
             \E other_order \in IterationOrders(DOMAIN other.explored_tiles) :
                call_has_conflicts(other, order, other_order)
    \/ \E width \in {1, Width} : \E height \in {Height} :
          \E generated \in GeneratedMaps(width, height) :
             \E order \in IterationOrders(DOMAIN knowledge.explored_tiles) :
                call_generate_partial_map(width, height, generated, order)

SpecSyncQuery == InitSyncQuery /\ [][NextSyncQuery]_vars

\* C25: has_conflicts(a, b) is true iff some position is known to both
\* stores with equal cell versions and different tiles, whatever the
\* explorer ids and the stores' versions; it modifies neither store and
\* has_conflicts(a, b) = has_conflicts(b, a).
C25_ConflictIsTieWithOtherTile ==
    [][ SyncCalled("has_conflicts") =>
          LET mine == knowledge.explored_tiles
              theirs == sync_call'.other.explored_tiles
          IN /\ sync_call'.ret =
                   (\E p \in DOMAIN mine \cap DOMAIN theirs :
                       /\ mine[p].version = theirs[p].version
                       /\ mine[p].tile # theirs[p].tile)
             /\ sync_call'.reverse = sync_call'.ret
             /\ knowledge' = knowledge
             /\ sync_call'.other_after = sync_call'.other
      ]_vars

\* A conflict was found at one position although the cells at the other
\* position differ in their explorer only and the stores in their version.
C25_Witness ==
    /\ sync_call.fn = "has_conflicts"
    /\ sync_call.ret
    /\ sync_call.reverse
    /\ sync_call.other.version # knowledge.version
    /\ DOMAIN knowledge.explored_tiles = SyncPositions
    /\ DOMAIN sync_call.other.explored_tiles = SyncPositions
    /\ knowledge.explored_tiles[ResourcePos].tile =
          sync_call.other.explored_tiles[ResourcePos].tile
    /\ knowledge.explored_tiles[ResourcePos].version =
          sync_call.other.explored_tiles[ResourcePos].version
    /\ knowledge.explored_tiles[ResourcePos].explorer_id #
          sync_call.other.explored_tiles[ResourcePos].explorer_id
    /\ knowledge.explored_tiles[EmptyPos].version =
          sync_call.other.explored_tiles[EmptyPos].version
    /\ knowledge.explored_tiles[EmptyPos].tile #
          sync_call.other.explored_tiles[EmptyPos].tile

\* C26: generate_partial_map(width, height) returns a width x height grid
\* whose cell at a position the store does not hold is Empty and whose
\* cell at an in-bounds position the store holds is the stored tile; store
\* cells out of bounds are ignored and the store is not modified.
C26_PartialMapShowsKnownOnly ==
    [][ SyncCalled("generate_partial_map") =>
          LET q == sync_call'
              known == knowledge.explored_tiles
          IN /\ q.ret.width = q.width
             /\ q.ret.height = q.height
             /\ Len(q.ret.tiles) = q.width * q.height
             /\ \A x \in 0 .. q.width - 1 : \A y \in 0 .. q.height - 1 :
                   get_tile(q.ret, x, y) =
                      Some(IF Pos(x, y) \in DOMAIN known THEN known[Pos(x, y)].tile
                           ELSE Empty)
             /\ knowledge' = knowledge
      ]_vars

\* C28: in every reachable state of the station no ledger table holds an
\* entry whose amount is 0: an Energy or Minerals position is removed when
\* a consumption brings it to zero, a ScientificData position when it is
\* claimed.
C28_NoZeroLedgerEntry ==
    /\ \A p \in DOMAIN energy_resources : energy_resources[p] > 0
    /\ \A p \in DOMAIN mineral_resources : mineral_resources[p] > 0
    /\ \A p \in DOMAIN scientific_resources : scientific_resources[p] > 0

\* An energy entry was consumed down to zero and is gone from the ledger.
C28_Witness ==
    /\ first_amount[<<"Energy", ResourcePos>>] = Some(MaxAmount)
    /\ decremented[<<"Energy", ResourcePos>>] = MaxAmount
    /\ ResourcePos \notin DOMAIN energy_resources
    /\ pc = "idle"
    /\ robot_receiver = <<>>

\* C29: when handling ResourceConsumed, the station mutates the ledger and
\* the terrain before it broadcasts ResourceUpdate: when the broadcast is
\* sent the terrain at the position already reflects the consumption.
C29_TerrainUpdatedBeforeBroadcast ==
    [][ (Handled("ResourceConsumed") /\ map_at_broadcast' # None)
          => map_at_broadcast' = Some(map')
      ]_vars

\* The amount of the kind the terrain holds at the position
TerrainAmount(m, resource_type, position) ==
    IF Holds(m, resource_type, position)
    THEN TileAmount(get_tile(m, position.x, position.y)[1])
    ELSE 0

\* C30: for every ResourceConsumed of Energy or Minerals, the reduction of
\* the terrain at the position equals the reduction of the ledger entry,
\* which is consumed = min(amount, ledger remaining at (kind, position)),
\* a missing entry counting as remaining 0.
C30_TerrainReducedAsLedger ==
    [][ (Handled("ResourceConsumed") /\ Msg.resource_type \in {"Energy", "Minerals"})
          => LET kind == Msg.resource_type
                 position == Msg.position
                 consumed == Min(Msg.amount, LedgerAmount(Table(kind), position))
             IN /\ Decrement(kind, position) = consumed
                /\ TerrainAmount(map, kind, position) - TerrainAmount(map', kind, position)
                      = consumed
      ]_vars

----------------------------------------------------------------------------
(* Robot production (station/mod.rs): create_robot, its resource test and   *)
(* the resources it consumes.                                               *)

RobotTypes == {"Explorer", "EnergyCollector", "Miner", "Scientist"}

\* HardwareModule values; the f32 parameters are written in hundredths.
TerrainScanner(efficiency, range) ==
    [kind |-> "TerrainScanner", efficiency |-> efficiency, range |-> range]
EnergyHarvester(collection_rate) ==
    [kind |-> "EnergyHarvester", collection_rate |-> collection_rate]
DeepDrill(mining_speed) == [kind |-> "DeepDrill", mining_speed |-> mining_speed]
SpectralAnalyzer(analysis_accuracy) ==
    [kind |-> "SpectralAnalyzer", analysis_accuracy |-> analysis_accuracy]

\* u32::saturating_add, for values far below u32::MAX
saturating_add(a, b) == a + b

\* A resource test that compares the energy cost only
can_create_robot_energy(s, robot_type) ==
    LET energy_cost == s.production_costs[robot_type][1]
    IN s.resources.energy >= energy_cost

can_create_robot(s, robot_type) ==
    LET energy_cost == s.production_costs[robot_type][1]
        mineral_cost == s.production_costs[robot_type][2]
    IN s.resources.energy >= energy_cost /\ s.resources.minerals >= mineral_cost

get_modules_for_robot_type(robot_type) ==
    CASE robot_type = "Explorer" -> <<TerrainScanner(90, 20)>>
      [] robot_type = "EnergyCollector" ->
            <<EnergyHarvester(200), TerrainScanner(60, 10)>>
      [] robot_type = "Miner" -> <<DeepDrill(200), TerrainScanner(60, 10)>>
      [] robot_type = "Scientist" ->
            <<SpectralAnalyzer(95), TerrainScanner(70, 15)>>

\* The costs are subtracted with `-=` on u32; create_robot calls this only
\* after can_create_robot, so the subtraction never goes below zero there.
consume_resources_for_robot(s, robot_type) ==
    LET energy_cost == s.production_costs[robot_type][1]
        mineral_cost == s.production_costs[robot_type][2]
    IN [s EXCEPT !.resources.energy = @ - energy_cost,
                 !.resources.minerals = @ - mineral_cost]

\* The robot create_robot builds: next to the station, with the type's modules
built_robot(s, robot_type) ==
    NewRobot(Pos(saturating_add(s.position.x, 1), s.position.y),
             get_modules_for_robot_type(robot_type))

create_robot(robot_type) ==
    /\ IF Len(station.robots) >= station.max_robots
       THEN /\ station' = station
            /\ production_call' =
                  [fn |-> "create_robot", robot_type |-> robot_type, ret |-> None]
            /\ production_log' = production_log
       ELSE IF ~ can_create_robot(station, robot_type)
       THEN /\ station' = station
            /\ production_call' =
                  [fn |-> "create_robot", robot_type |-> robot_type, ret |-> None]
            /\ production_log' = production_log
       ELSE LET consumed == consume_resources_for_robot(station, robot_type)
                robot == built_robot(station, robot_type)
            IN /\ station' = [consumed EXCEPT !.robots = Append(@, robot)]
               /\ production_call' =
                     [fn |-> "create_robot", robot_type |-> robot_type,
                      ret |-> Some(robot)]
               /\ production_log' =
                     [production_log EXCEPT !.created = Append(@, robot_type)]
    /\ UNCHANGED <<map, station_vars, channel_vars, robot_vars, map_call,
                   sync_vars, robot_call, map_at_broadcast, robot_state>>

\* Stocks of the station when create_robot is called. Station::new starts at
\* energy 1000 and minerals 500; earlier productions lower the stock by the
\* costs and collect_robot_resources raises it by any robot's inventory, so
\* the values on either side of every cost occur.
EnergyStocks == {0, 149, 150, 199, 200, 249, 250, 400, 1000}
MineralStocks == {0, 99, 100, 149, 150, 199, 200, 300, 500}

\* Roster sizes when create_robot is called: empty, one or two places left, full
RosterSizes ==
    {0, NewStation.max_robots - 2, NewStation.max_robots - 1, NewStation.max_robots}

\* A roster of n robots produced earlier
Roster(n) == [i \in 1 .. n |-> built_robot(NewStation, "Explorer")]

Stations ==
    {[NewStation EXCEPT !.resources.energy = e, !.resources.minerals = m,
                        !.robots = Roster(n)] :
        e \in EnergyStocks, m \in MineralStocks, n \in RosterSizes}

InitStationSpec ==
    /\ map = BlankMap
    /\ InitStation
    /\ InitChannels
    /\ InitRobots
    /\ InitKnowledge
    /\ map_call = NoMapCall
    /\ robot_call = NoRobotCall
    /\ sync_call = NoSyncCall
    /\ map_at_broadcast = None
    /\ station \in Stations
    /\ production_call = NoProductionCall
    /\ production_log = [stock |-> station.resources, created |-> <<>>]
    /\ robot_state = NewRobot(Pos(0, 0), <<>>)

NextStation == \E robot_type \in RobotTypes : create_robot(robot_type)

SpecStation == InitStationSpec /\ [][NextStation]_vars

\* A step that is a call of create_robot
CreateRobotCalled ==
    /\ production_call'.fn = "create_robot"
    /\ production_vars' # production_vars

\* C27: create_robot declines when the roster is full (max_robots) or the
\* station's energy or minerals are below the cost of the requested type: it
\* returns None and leaves resources and roster unchanged. Otherwise it
\* returns the robot, subtracts exactly that type's (energy, mineral) cost and
\* the roster grows by exactly that one robot.
C27_CreateRobotDeclinesOrPays ==
    [][ CreateRobotCalled =>
          LET robot_type == production_call'.robot_type
              ret == production_call'.ret
              energy_cost == station.production_costs[robot_type][1]
              mineral_cost == station.production_costs[robot_type][2]
              declined == \/ Len(station.robots) >= station.max_robots
                          \/ station.resources.energy < energy_cost
                          \/ station.resources.minerals < mineral_cost
          IN IF declined
             THEN /\ ret = None
                  /\ station' = station
             ELSE /\ ret # None
                  /\ station'.resources.energy = station.resources.energy - energy_cost
                  /\ station'.resources.minerals =
                        station.resources.minerals - mineral_cost
                  /\ station'.resources.scientific_data =
                        station.resources.scientific_data
                  /\ station'.robots = Append(station.robots, ret[1])
                  /\ Len(station'.robots) = Len(station.robots) + 1
      ]_vars

\* The last place of the roster was filled by a Scientist the station could
\* just pay for in minerals, and the stock is lower by that cost.
C27_Witness ==
    /\ production_call.fn = "create_robot"
    /\ production_call.robot_type = "Scientist"
    /\ production_call.ret # None
    /\ Len(station.robots) = station.max_robots
    /\ station.robots[station.max_robots] = production_call.ret[1]
    /\ station.resources.minerals = 0

----------------------------------------------------------------------------
(* Further properties of Spec *)

ConsumedAck == Acknowledgement("Resource consumption", Msg.position)

\* C31: handling a ResourceConsumed taken from a registered robot sends
\* exactly one Acknowledgement, to the robot whose id was paired with the
\* message on the channel and to no other robot, and it is placed on that
\* robot's channel after the ResourceUpdate broadcast of the same message.
C31_ConsumedAcknowledgedAfterUpdate ==
    [][ (Handled("ResourceConsumed") /\ Sender \in Live)
        => /\ \A robot \in Robots : Extends(robot)
           /\ OfType(Sent(Sender), "Acknowledgement") = <<ConsumedAck>>
           /\ Sent(Sender)[Len(Sent(Sender))] = ConsumedAck
           /\ \A i \in 1 .. Len(Sent(Sender)) - 1 :
                 Sent(Sender)[i].type = "ResourceUpdate"
           /\ \A robot \in Robots \ {Sender} :
                 OfType(Sent(robot), "Acknowledgement") = <<>>
      ]_vars

\* Robot 1 consumed part of the deposit: its channel holds the update and
\* then the acknowledgement, robot 2's channel holds the update alone.
C31_Witness ==
    /\ robot_senders = Robots
    /\ station_receiver[1] =
          <<ResourceUpdate("Energy", ResourcePos, MaxAmount - 1),
            Acknowledgement("Resource consumption", ResourcePos)>>
    /\ station_receiver[2] = <<ResourceUpdate("Energy", ResourcePos, MaxAmount - 1)>>

----------------------------------------------------------------------------
(* report_pending_consumed_resources on a session whose pending list was    *)
(* filled beforehand, as test_report_pending_consumed_resources does.       *)

MaxFlush == 2

\* (resource_type, position, amount) tuples pushed on the pending list
FlushInputs ==
    {<<"Energy", ResourcePos, 1>>, <<"Energy", ResourcePos, MaxAmount>>,
     <<"Minerals", EmptyPos, 1>>, <<"Minerals", EmptyPos, MaxAmount>>,
     <<"ScientificData", ResourcePos, 1>>}

RECURSIVE Lists(_, _)
Lists(S, n) ==
    IF n = 0 THEN {<<>>}
    ELSE Lists(S, n - 1) \cup {Append(l, e) : l \in Lists(S, n - 1), e \in S}

InitFlush ==
    /\ map = BlankMap
    /\ InitStation
    /\ InitChannels
    /\ local_energy_resources = [r \in Robots |-> EmptyTable]
    /\ local_mineral_resources = [r \in Robots |-> EmptyTable]
    /\ local_scientific_resources = [r \in Robots |-> EmptyTable]
    /\ \E pending \in Lists(FlushInputs, MaxFlush) :
          /\ pending_consumed_resources =
                [r \in Robots |-> IF r = TestRobot THEN pending ELSE <<>>]
          /\ pending_validated =
                [r \in Robots |->
                    IF r = TestRobot THEN [i \in 1 .. Len(pending) |-> FALSE] ELSE <<>>]
    /\ map_call = NoMapCall
    /\ robot_call = NoRobotCall
    /\ InitProduction
    /\ InitKnowledge

NextFlush ==
    \/ report_pending_consumed_resources(TestRobot)
    \/ \E c \in FlushInputs : register_consumed_resource(TestRobot, c[1], c[2], c[3])
    \/ harness_recv

SpecFlush == InitFlush /\ [][NextFlush]_vars

\* The ResourceConsumed messages of a pending list, in its order
ConsumedMessages(robot_id, pending) ==
    [i \in 1 .. Len(pending) |->
        [id |-> robot_id,
         msg |-> ResourceConsumed(pending[i][1], pending[i][2], pending[i][3], robot_id)]]

\* C32: report_pending_consumed_resources sends exactly one ResourceConsumed
\* per pending tuple, in the order of registration, each with the tuple's
\* kind, position and amount and the robot's own id, and leaves the pending
\* list empty; a robot whose pending list is empty sends no ResourceConsumed.
C32_FlushSendsPendingInOrder ==
    [][ \A r \in Robots :
          /\ (SendsConsumed(r)
                \/ Len(pending_consumed_resources'[r]) < Len(pending_consumed_resources[r]))
             => /\ robot_receiver' =
                      robot_receiver \o ConsumedMessages(r, pending_consumed_resources[r])
                /\ pending_consumed_resources'[r] = <<>>
          /\ pending_consumed_resources[r] = <<>> => ~SendsConsumed(r)
      ]_vars

\* Two consumptions were pending; both are on the station's channel in the
\* order of the list and the list is empty.
C32_Witness ==
    /\ robot_receiver =
          ConsumedMessages(TestRobot,
                           <<<<"Energy", ResourcePos, 1>>, <<"Minerals", EmptyPos, MaxAmount>>>>)
    /\ pending_consumed_resources[TestRobot] = <<>>

----------------------------------------------------------------------------
(* Robot::move_randomly (robot/mod.rs) on a map with obstacles.             *)

MoveWidth == 3
MoveHeight == 3

\* A test that finds no obstacle anywhere
never_obstacle(m, x, y) == FALSE

\* Map::is_obstacle
is_obstacle(m, x, y) ==
    LET found == get_tile(m, x, y) IN found # None /\ found[1] = Obstacle

\* u32::saturating_add_signed, for values far below u32::MAX
saturating_add_signed(a, d) == IF a + d < 0 THEN 0 ELSE a + d

\* dx and dy are drawn by rng.gen_range(-1..=1)
move_randomly(dx, dy) ==
    LET new_x == saturating_add_signed(robot_state.position.x, dx)
        new_y == saturating_add_signed(robot_state.position.y, dy)
    IN /\ robot_state' =
            IF new_x < map.width /\ new_y < map.height /\ ~ is_obstacle(map, new_x, new_y)
            THEN [robot_state EXCEPT !.position = Pos(new_x, new_y)]
            ELSE robot_state
       /\ UNCHANGED <<map, station_vars, channel_vars, robot_vars, map_call, sync_vars,
                      robot_call, station, production_call, production_log,
                      map_at_broadcast>>

\* Maps whose tiles are obstacles or free, as test_move_randomly_obstacle_avoidance
\* builds them with get_tile_mut
MoveMaps ==
    {[width |-> MoveWidth, height |-> MoveHeight, tiles |-> tiles] :
        tiles \in [1 .. MoveWidth * MoveHeight -> {Empty, Obstacle}]}

InBounds(m, position) == position.x < m.width /\ position.y < m.height

InitMove ==
    /\ map \in MoveMaps
    /\ InitStation
    /\ InitChannels
    /\ InitRobots
    /\ InitKnowledge
    /\ map_call = NoMapCall
    /\ robot_call = NoRobotCall
    /\ sync_call = NoSyncCall
    /\ map_at_broadcast = None
    /\ station = NewStation
    /\ production_call = NoProductionCall
    /\ production_log = [stock |-> NewStation.resources, created |-> <<>>]
    /\ \E x \in 0 .. MoveWidth - 1 : \E y \in 0 .. MoveHeight - 1 :
          /\ map.tiles[TileIndex(map, x, y)] # Obstacle
          /\ robot_state = NewRobot(Pos(x, y), <<>>)

NextMove == \E dx \in -1 .. 1 : \E dy \in -1 .. 1 : move_randomly(dx, dy)

SpecMove == InitMove /\ [][NextMove]_vars

\* The eight cells around a position, as signed coordinates
Neighbours(position) ==
    {<<position.x + dx, position.y + dy>> : dx \in -1 .. 1, dy \in -1 .. 1}
        \ {<<position.x, position.y>>}

\* Every neighbouring cell is out of bounds or an obstacle
Surrounded(m, position) ==
    \A n \in Neighbours(position) :
       \/ n[1] < 0 \/ n[2] < 0 \/ n[1] >= m.width \/ n[2] >= m.height
       \/ m.tiles[n[2] * m.width + n[1] + 1] = Obstacle

\* C33: starting from an in-bounds position that is not an obstacle, after
\* any number of move_randomly calls the robot is in bounds and not on an
\* obstacle; a robot whose neighbouring cells are all obstacles or out of
\* bounds stays where it is.
C33_MoveStaysOnFreeCells ==
    /\ [](/\ InBounds(map, robot_state.position)
          /\ map.tiles[TileIndex(map, robot_state.position.x,
                                 robot_state.position.y)] # Obstacle)
    /\ [][Surrounded(map, robot_state.position)
             => robot_state'.position = robot_state.position]_vars

\* The robot has walked from one corner to the opposite one past an
\* obstacle in the centre.
C33_Witness ==
    /\ robot_state.visited_positions = <<Pos(0, 0)>>
    /\ robot_state.position = Pos(MoveWidth - 1, MoveHeight - 1)
    /\ map.width = MoveWidth
    /\ map.tiles[TileIndex(map, 1, 1)] = Obstacle

----------------------------------------------------------------------------
(* Ledger and terrain under process_messages *)

\* C34: in every state reached by process_messages alone, every ledger
\* entry (kind, position) -> amount has a terrain tile of that kind at that
\* position holding exactly that amount.
C34_LedgerMirrorsTerrain ==
    \A kind \in Kinds : \A position \in DOMAIN Table(kind) :
       /\ Holds(map, kind, position)
       /\ TileAmount(get_tile(map, position.x, position.y)[1]) = Table(kind)[position]

\* A mineral deposit was discovered and then partly consumed: ledger and
\* terrain both hold what is left.
C34_Witness ==
    /\ ResourcePos \in DOMAIN mineral_resources
    /\ mineral_resources[ResourcePos] = MaxAmount - 1
    /\ get_tile(map, ResourcePos.x, ResourcePos.y) = Some(Mineral(MaxAmount - 1))
    /\ decremented[<<"Minerals", ResourcePos>>] = 1

----------------------------------------------------------------------------
(* Caches of the sessions against the ledger *)

\* Nothing is in flight, nothing is pending and no channel is closed
Quiescent ==
    /\ robot_receiver = <<>>
    /\ \A r \in Robots : station_receiver[r] = <<>>
    /\ \A r \in Robots : pending_consumed_resources[r] = <<>>
    /\ ~ station_dropped
    /\ robots_dropped = {}

\* C35: in every quiescent state each entry of a registered robot's cache
\* is in the station's ledger with the same amount.
C35_CachesAgreeWithLedger ==
    Quiescent =>
       \A r \in robot_senders : \A kind \in Kinds :
          \A position \in DOMAIN Cache(r, kind) :
             /\ position \in DOMAIN Table(kind)
             /\ Table(kind)[position] = Cache(r, kind)[position]

\* Both robots cached the deposit, robot 1 consumed part of it, and after
\* everything was delivered both caches show what the ledger shows.
C35_Witness ==
    /\ Quiescent
    /\ ResourcePos \in DOMAIN energy_resources
    /\ energy_resources[ResourcePos] = MaxAmount - 1
    /\ decremented[<<"Energy", ResourcePos>>] = 1
    /\ \A r \in Robots :
          local_energy_resources[r] = Insert(EmptyTable, ResourcePos, MaxAmount - 1)

----------------------------------------------------------------------------
(* The store over sequences of merge_robot_knowledge and resolve_conflicts *)

\* C36: over any sequence of merge_robot_knowledge and resolve_conflicts
\* calls a known position never becomes unknown and the version stored for
\* it never decreases: a cell is only ever replaced by a cell with a
\* strictly greater version.
C36_CellsOnlyMoveForward ==
    [][ \A p \in DOMAIN knowledge.explored_tiles :
          /\ p \in DOMAIN knowledge'.explored_tiles
          /\ \/ knowledge'.explored_tiles[p] = knowledge.explored_tiles[p]
             \/ knowledge'.explored_tiles[p].version > knowledge.explored_tiles[p].version
      ]_vars

\* Robot 1's cell, merged first, has been replaced by the newer cell of the
\* other store, while the other position it reported is still known.
C36_Witness ==
    /\ sync_call.fn = "resolve_conflicts"
    /\ Len(knowledge.updates_history) = 1
    /\ knowledge.updates_history[1].robot_id = 1
    /\ Range(knowledge.updates_history[1].positions) = SyncPositions
    /\ ResourcePos \in DOMAIN sync_call.other.explored_tiles
    /\ knowledge.explored_tiles[ResourcePos] = sync_call.other.explored_tiles[ResourcePos]
    /\ knowledge.explored_tiles[ResourcePos].explorer_id = Some(2)
    /\ knowledge.explored_tiles[ResourcePos].version = MaxCellVersion
    /\ knowledge.explored_tiles[EmptyPos].explorer_id = Some(1)

\* version counts the records and the i-th record has version i
CountsRecords(k) ==
    /\ k.version = Len(k.updates_history)
    /\ \A i \in DOMAIN k.updates_history : k.updates_history[i].version = i

\* C37: updates_history is append-only (existing records are never modified
\* or removed), the versions of its records are strictly increasing and
\* every record has a non-empty position list; and for a store changed only
\* by merge_robot_knowledge since creation, version equals the length of
\* updates_history and the i-th record has version i.
C37_HistoryAppendOnly ==
    /\ CountsRecords(knowledge)
    /\ [](/\ \A i \in DOMAIN knowledge.updates_history :
                knowledge.updates_history[i].positions # <<>>
          /\ \A i, j \in DOMAIN knowledge.updates_history :
                i < j => knowledge.updates_history[i].version
                            < knowledge.updates_history[j].version)
    /\ [][ /\ Len(knowledge'.updates_history) >= Len(knowledge.updates_history)
           /\ SubSeq(knowledge'.updates_history, 1, Len(knowledge.updates_history))
                 = knowledge.updates_history
           /\ (SyncCalled("merge_robot_knowledge") /\ CountsRecords(knowledge))
                 => CountsRecords(knowledge')
         ]_vars

\* Two merges and nothing else: two records, versions 1 and 2, and the
\* store is at version 2.
C37_Witness ==
    /\ sync_call.fn = "merge_robot_knowledge"
    /\ Len(knowledge.updates_history) = 2
    /\ knowledge.version = 2
    /\ knowledge.updates_history[1].version = 1
    /\ knowledge.updates_history[2].version = 2
    /\ knowledge.updates_history[1].robot_id # knowledge.updates_history[2].robot_id

----------------------------------------------------------------------------
(* Two merges into the same store, in either order *)

\* The store after store.merge_robot_knowledge(robot_tiles, robot_id)
merged_store(store, robot_tiles, robot_id, order, timestamp) ==
    record_update(store,
                  merge_loop(store.explored_tiles, <<>>, robot_tiles, order),
                  timestamp, robot_id)

\* Stores that one merge into MapKnowledge::new() leaves
MergedStores ==
    {NewKnowledge} \cup
    UNION {UNION {{merged_store(NewKnowledge, tiles, r, order, 0) :
                     order \in IterationOrders(DOMAIN tiles)} :
                  tiles \in RobotTiles(r)} :
           r \in Robots}

\* x is merged and then y; a clone of the store gets y and then x. One
\* comparison is made per store.
merge_both_orders(x, y, x_order, y_order) ==
    LET x_first == merged_store(merged_store(knowledge, x, 1, x_order, 0),
                                y, 2, y_order, 0)
        y_first == merged_store(merged_store(knowledge, y, 2, y_order, 0),
                                x, 1, x_order, 0)
    IN /\ sync_call = NoSyncCall
       /\ knowledge' = x_first
       /\ sync_call' = [fn |-> "merge_both_orders", store |-> knowledge,
                        x |-> x, y |-> y, swapped |-> y_first]
       /\ UNCHANGED <<map, station_vars, channel_vars, robot_vars, map_call,
                      robot_call, production_vars, map_at_broadcast>>

InitOrder ==
    /\ map = BlankMap
    /\ InitStation
    /\ InitChannels
    /\ InitRobots
    /\ map_call = NoMapCall
    /\ robot_call = NoRobotCall
    /\ InitProduction
    /\ knowledge \in MergedStores
    /\ sync_call = NoSyncCall

NextOrder ==
    \E x \in RobotTiles(1) : \E y \in RobotTiles(2) :
       \E x_order \in IterationOrders(DOMAIN x) :
          \E y_order \in IterationOrders(DOMAIN y) :
             merge_both_orders(x, y, x_order, y_order)

SpecOrder == InitOrder /\ [][NextOrder]_vars

\* No position occurs in both sets with equal cell versions
NoTie(x, y) ==
    \A p \in DOMAIN x \cap DOMAIN y : x[p].version # y[p].version

\* The cell of highest version among the store, x and y, the store winning ties
HighestCell(store_tiles, x, y, p) ==
    LET incoming == {t \in {x, y} : p \in DOMAIN t}
        best == CHOOSE t \in incoming :
                   \A u \in incoming : t[p].version >= u[p].version
    IN IF incoming = {} THEN store_tiles[p]
       ELSE IF p \in DOMAIN store_tiles /\ store_tiles[p].version >= best[p].version
       THEN store_tiles[p]
       ELSE best[p]

\* C38: for a store S and incoming sets X and Y in which no position occurs
\* in both with equal cell versions, merging X then Y into S yields the
\* same explored_tiles as merging Y then X: each position ends with the
\* cell of highest version among S, X and Y, S winning ties.
C38_MergeOrderIndependent ==
    [][ (SyncCalled("merge_both_orders") /\ NoTie(sync_call'.x, sync_call'.y))
        => LET x == sync_call'.x
               y == sync_call'.y
               known == DOMAIN knowledge.explored_tiles \cup DOMAIN x \cup DOMAIN y
           IN /\ knowledge'.explored_tiles = sync_call'.swapped.explored_tiles
              /\ DOMAIN knowledge'.explored_tiles = known
              /\ \A p \in known :
                    knowledge'.explored_tiles[p]
                       = HighestCell(knowledge.explored_tiles, x, y, p)
      ]_vars

\* X and Y both report the position with different versions, Y's being the
\* higher one and equal to the store's: the store's cell is still there in
\* both orders, while the version numbers of the two results differ.
C38_Witness ==
    /\ sync_call.fn = "merge_both_orders"
    /\ ResourcePos \in DOMAIN sync_call.x \cap DOMAIN sync_call.y
    /\ ResourcePos \in DOMAIN sync_call.store.explored_tiles
    /\ sync_call.x[ResourcePos].version < sync_call.y[ResourcePos].version
    /\ sync_call.y[ResourcePos].version = sync_call.store.explored_tiles[ResourcePos].version
    /\ sync_call.y[ResourcePos] # sync_call.store.explored_tiles[ResourcePos]
    /\ knowledge.explored_tiles[ResourcePos] = sync_call.store.explored_tiles[ResourcePos]
    /\ knowledge.explored_tiles = sync_call.swapped.explored_tiles
    /\ knowledge.updates_history # sync_call.swapped.updates_history

----------------------------------------------------------------------------
(* resolve_conflicts: what is known afterwards *)

\* C39: after self.resolve_conflicts(other) the positions known to self are
\* exactly those known to self before together with those known to other,
\* a position known only to other being inserted with other's cell;
\* updates_history is left unchanged.
C39_ResolveKeepsAllKnowledge ==
    [][ SyncCalled("resolve_conflicts") =>
          LET mine == knowledge.explored_tiles
              theirs == sync_call'.other.explored_tiles
          IN /\ DOMAIN knowledge'.explored_tiles = DOMAIN mine \cup DOMAIN theirs
             /\ \A p \in DOMAIN theirs \ DOMAIN mine :
                   knowledge'.explored_tiles[p] = theirs[p]
             /\ knowledge'.updates_history = knowledge.updates_history
      ]_vars

\* The store knew one position from a merge and learnt the other from the
\* other store; its history still holds the one record of the merge.
C39_Witness ==
    /\ sync_call.fn = "resolve_conflicts"
    /\ DOMAIN sync_call.other.explored_tiles = {EmptyPos}
    /\ DOMAIN knowledge.explored_tiles = SyncPositions
    /\ knowledge.explored_tiles[EmptyPos] = sync_call.other.explored_tiles[EmptyPos]
    /\ Len(knowledge.updates_history) = 1
    /\ knowledge.updates_history[1].positions = <<ResourcePos>>
    /\ knowledge.explored_tiles[ResourcePos].explorer_id = Some(1)

----------------------------------------------------------------------------
(* Sequences of create_robot calls *)

\* The sum of the i-th cost (1: energy, 2: minerals) over the types created
RECURSIVE SumCosts(_, _, _)
SumCosts(costs, created, i) ==
    IF created = <<>> THEN 0
    ELSE costs[Head(created)][i] + SumCosts(costs, Tail(created), i)

\* C40: over any sequence of create_robot calls of any robot types the
\* roster never holds more than max_robots robots and the station's energy
\* and minerals never underflow: a successful creation finds at least the
\* cost before subtracting, so what was spent is the sum of the costs of
\* the robots created.
C40_ProductionWithinMeans ==
    /\ [](/\ Len(station.robots) <= station.max_robots
          /\ station.resources.energy >= 0
          /\ station.resources.minerals >= 0
          /\ production_log.stock.energy - station.resources.energy
                = SumCosts(station.production_costs, production_log.created, 1)
          /\ production_log.stock.minerals - station.resources.minerals
                = SumCosts(station.production_costs, production_log.created, 2))
    /\ [][ (CreateRobotCalled /\ production_call'.ret # None)
             => /\ station.resources.energy
                     >= station.production_costs[production_call'.robot_type][1]
                /\ station.resources.minerals
                     >= station.production_costs[production_call'.robot_type][2]
         ]_vars

\* A Scientist and a Miner took the last two places of the roster and all
\* the energy; further calls have been declined.
C40_Witness ==
    /\ production_log.created = <<"Scientist", "Miner">>
    /\ Len(station.robots) = station.max_robots
    /\ station.resources.energy = 0
    /\ station.resources.minerals = 150
    /\ production_call.fn = "create_robot"
    /\ production_call.ret = None

=============================================================================
